---- MODULE Spec2Model ----
(***************************************************************************)
(* Model of the SaaS classification pipeline of packages/backend/app/      *)
(* saas_classification: extract_signals, classify, get_benchmark_key,      *)
(* rank_products_for_category and the public entry point classify_saas.    *)
(*                                                                         *)
(* Text is modelled character by character on TLA+ strings (Len, SubSeq    *)
(* and \o).  Python values of unknown type are tagged records (PyStr,      *)
(* PyInt, ...).  Scores are multiples of 0.25 in the code; the model       *)
(* counts them in quarter points (1.0 = 4).                                *)
(***************************************************************************)
EXTENDS Integers, Sequences, FiniteSets, TLC

\* the caller that makes one call after the other: the call in progress,
\* its arguments and the locals of the functions it runs
VARIABLES op, pc, vendor_input, signals, idx, best_category, best_score,
          second_best_score, all_breakdowns, confidence, category,
          vendor_name, top_n, benchmark_key, top_products, result, raised

\* the module-level objects every invocation reads, and the activation
\* records of the invocations that run concurrently
VARIABLES module_state, threads

seq_vars == <<op, pc, vendor_input, signals, idx, best_category, best_score,
              second_best_score, all_breakdowns, confidence, category,
              vendor_name, top_n, benchmark_key, top_products, result, raised>>

vars == <<seq_vars, module_state, threads>>

(***************************************************************************)
(* Bounds of the model.                                                    *)
(***************************************************************************)
\* largest top_n a direct caller of rank_products_for_category passes
MaxTopN == 4
\* how often a word is repeated in a generated text variant
MaxRepeat == 3
\* longest generated product_tags list
MaxTagListLen == 2
\* number of enumeration orders tried for every Python set that is iterated
NumIterOrders == 3
\* number of invocations that run concurrently
NumThreads == 2
\* deepest nesting of lists and dicts in a generated metadata value
MaxNesting == 3

(***************************************************************************)
(* Characters and strings.                                                 *)
(***************************************************************************)
UPPER == "ABCDEFGHIJKLMNOPQRSTUVWXYZ"
LOWER == "abcdefghijklmnopqrstuvwxyz"
DIGITS == "0123456789"
\* printable ASCII (less the grave accent) in code point order, used to compare strings
ASCII == " !\"#$%&'()*+,-./0123456789:;<=>?@ABCDEFGHIJKLMNOPQRSTUVWXYZ[\\]^_abcdefghijklmnopqrstuvwxyz{|}~"

CharAt(s, i) == SubSeq(s, i, i)

CharsOf(s) == {CharAt(s, i) : i \in 1..Len(s)}

IndexIn(s, c) == CHOOSE i \in 1..Len(s) : CharAt(s, i) = c

UpperChars == CharsOf(UPPER)

LowerChars == CharsOf(LOWER)

DigitChars == CharsOf(DIGITS)

\* str.split() and str.strip() treat these as whitespace
WhitespaceChars == {" ", "\t", "\n", "\r", "\f"}

\* the character class [a-z0-9_] of the tokenizer
TokenChars == LowerChars \cup DigitChars \cup {"_"}

LowerChar(c) == IF c \in UpperChars THEN CharAt(LOWER, IndexIn(UPPER, c)) ELSE c

\* str.upper() of one character; the sharp s has no capital form of one
\* character and becomes "SS", while str.lower() leaves it as it is
UpperChar(c) ==
    IF c \in LowerChars THEN CharAt(UPPER, IndexIn(LOWER, c))
    ELSE IF c = "ß" THEN "SS"
    ELSE c

\* str.lower() and str.upper() map the characters one by one; the string is
\* halved to keep the evaluation shallow
RECURSIVE StrLower(_)
StrLower(s) ==
    IF Len(s) = 0 THEN ""
    ELSE IF Len(s) = 1 THEN LowerChar(s)
    ELSE StrLower(SubSeq(s, 1, Len(s) \div 2)) \o StrLower(SubSeq(s, (Len(s) \div 2) + 1, Len(s)))

RECURSIVE StrUpper(_)
StrUpper(s) ==
    IF Len(s) = 0 THEN ""
    ELSE IF Len(s) = 1 THEN UpperChar(s)
    ELSE StrUpper(SubSeq(s, 1, Len(s) \div 2)) \o StrUpper(SubSeq(s, (Len(s) \div 2) + 1, Len(s)))

\* the maximal runs of characters c with (c \in set) = member, left to right
RunsFrom(s, set, member) ==
    LET In(i) == (CharAt(s, i) \in set) = member
        starts == {i \in 1..Len(s) : In(i) /\ (i = 1 \/ ~In(i - 1))}
        ends == {j \in 1..Len(s) : In(j) /\ (j = Len(s) \/ ~In(j + 1))}
        Nth(S, k) == CHOOSE i \in S : Cardinality({j \in S : j < i}) = k - 1
    IN  [k \in 1..Cardinality(starts) |-> SubSeq(s, Nth(starts, k), Nth(ends, k))]

\* str.split(): the whitespace-separated words
StrSplit(s) == RunsFrom(s, WhitespaceChars, FALSE)

\* [t for t in s.split(" ") if t]
StrSplitSpace(s) == RunsFrom(s, {" "}, FALSE)

\* re.findall(r"[a-z0-9_]+", s)
FindTokenRuns(s) == RunsFrom(s, TokenChars, TRUE)

\* sep.join(parts)
RECURSIVE StrJoin(_, _)
StrJoin(sep, parts) ==
    IF Len(parts) = 0 THEN ""
    ELSE IF Len(parts) = 1 THEN parts[1]
    ELSE StrJoin(sep, SubSeq(parts, 1, Len(parts) \div 2)) \o sep
           \o StrJoin(sep, SubSeq(parts, (Len(parts) \div 2) + 1, Len(parts)))

\* str.strip()
RECURSIVE StripLeft(_)
StripLeft(s) ==
    IF s # "" /\ CharAt(s, 1) \in WhitespaceChars THEN StripLeft(SubSeq(s, 2, Len(s))) ELSE s

RECURSIVE StripRight(_)
StripRight(s) ==
    IF s # "" /\ CharAt(s, Len(s)) \in WhitespaceChars THEN StripRight(SubSeq(s, 1, Len(s) - 1)) ELSE s

StrStrip(s) == StripRight(StripLeft(s))

\* sub in s
StrContains(sub, s) ==
    \E i \in 1..(Len(s) - Len(sub) + 1) : SubSeq(s, i, i + Len(sub) - 1) = sub

\* code point order on strings (a < b in Python)
RECURSIVE StrLessFrom(_, _, _)
StrLessFrom(a, b, i) ==
    IF i > Len(b) THEN FALSE
    ELSE IF i > Len(a) THEN TRUE
    ELSE LET ca == IndexIn(ASCII, CharAt(a, i))
             cb == IndexIn(ASCII, CharAt(b, i))
         IN  IF ca = cb THEN StrLessFrom(a, b, i + 1) ELSE ca < cb

StrLess(a, b) == StrLessFrom(a, b, 1)

\* the elements of a sequence, as a set
Range(seq) == {seq[i] : i \in 1..Len(seq)}

Min(a, b) == IF a <= b THEN a ELSE b

Max(a, b) == IF a >= b THEN a ELSE b

(***************************************************************************)
(* Python values whose type the code does not know in advance.             *)
(***************************************************************************)
PyAbsent == [kind |-> "absent"]
PyNone == [kind |-> "none"]
PyStr(s) == [kind |-> "str", s |-> s]
PyInt(n) == [kind |-> "int", n |-> n]
PyBool(b) == [kind |-> "bool", b |-> b]
\* a list or a tuple
PyList(items) == [kind |-> "list", items |-> items]
\* a dict, as the sequence of its (key, value) pairs in insertion order
PyDict(pairs) == [kind |-> "dict", pairs |-> pairs]

\* bool(v)
Truthy(v) ==
    CASE v.kind = "str" -> v.s # ""
      [] v.kind = "int" -> v.n # 0
      [] v.kind = "bool" -> v.b
      [] v.kind = "list" -> v.items # <<>>
      [] v.kind = "dict" -> v.pairs # <<>>
      [] OTHER -> FALSE

\* vendor_input.get(key) or default
GetOr(v, default) == IF Truthy(v) THEN v ELSE default

(***************************************************************************)
(* feature_extractor.py                                                    *)
(***************************************************************************)
MIN_TOKEN_LENGTH == 2

\* DIGITS_ONLY_PATTERN.match(t)
DigitsOnly(t) == t # "" /\ \A i \in 1..Len(t) : CharAt(t, i) \in DigitChars

\* NormalizeStr without the call of lower()
NormalizeStr_nolower(s) == StrJoin(" ", StrSplit(s))

\* _normalize_text applied to a str
NormalizeStr(s) == StrJoin(" ", StrSplit(StrLower(s)))

\* _normalize_text applied to any value
_normalize_text(v) == IF v.kind = "str" /\ v.s # "" THEN NormalizeStr(v.s) ELSE ""

\* _tokenize without the filter on length and digits
_tokenize_nofilter(text) ==
    IF text = "" THEN <<>> ELSE FindTokenRuns(NormalizeStr(text))

\* _tokenize applied to a str
_tokenize(text) ==
    IF text = "" THEN <<>>
    ELSE SelectSeq(FindTokenRuns(NormalizeStr(text)),
                   LAMBDA t : Len(t) >= MIN_TOKEN_LENGTH /\ ~DigitsOnly(t))

RECURSIVE _normalize_metadata_value(_)
RECURSIVE NormalizeItems(_)
RECURSIVE NormalizePairs(_)
RECURSIVE NormalizePairs_valuesonly(_)
_normalize_metadata_value(value) ==
    CASE value.kind = "none" -> <<>>
      [] value.kind = "bool" -> <<>>
      [] value.kind = "int" -> <<>>
      [] value.kind = "str" ->
           LET normalized == _normalize_text(value) IN
           IF normalized = "" THEN <<>> ELSE <<normalized>> \o _tokenize(normalized)
      [] value.kind = "list" -> NormalizeItems(value.items)
      [] value.kind = "dict" -> NormalizePairs(value.pairs)
      [] OTHER -> <<>>

\* the loop over a list or tuple value
NormalizeItems(items) ==
    IF items = <<>> THEN <<>>
    ELSE _normalize_metadata_value(Head(items)) \o NormalizeItems(Tail(items))

\* the loop over the items of a dict that leaves the keys out
NormalizePairs_valuesonly(pairs) ==
    IF pairs = <<>> THEN <<>>
    ELSE _normalize_metadata_value(Head(pairs)[2]) \o NormalizePairs_valuesonly(Tail(pairs))

\* the loop over the items of a dict value
NormalizePairs(pairs) ==
    IF pairs = <<>> THEN <<>>
    ELSE _normalize_metadata_value(Head(pairs)[1])
           \o _normalize_metadata_value(Head(pairs)[2])
           \o NormalizePairs(Tail(pairs))

\* the three text fields after "or ''", in the order they are joined
TextFields(vi) ==
    <<GetOr(vi.website_text, PyStr("")), GetOr(vi.description, PyStr("")), GetOr(vi.name, PyStr(""))>>

\* " ".join(filter(None, [...])) raises TypeError on a truthy non-str item;
\* metadata.items() raises AttributeError on a truthy non-dict
ExtractRaises(vi) ==
    LET kept == SelectSeq(TextFields(vi), Truthy) IN
    IF \E i \in 1..Len(kept) : kept[i].kind # "str" THEN "TypeError"
    ELSE IF GetOr(vi.metadata, PyDict(<<>>)).kind # "dict" THEN "AttributeError"
    ELSE "none"

\* CombinedText of website_text and name alone, without the description
CombinedText_nodescription(vi) ==
    LET kept == SelectSeq(<<TextFields(vi)[1], TextFields(vi)[3]>>, Truthy) IN
    StrJoin(" ", [i \in 1..Len(kept) |-> kept[i].s])

\* CombinedText of website_text and description alone, without the name
CombinedText_noname(vi) ==
    LET kept == SelectSeq(<<TextFields(vi)[1], TextFields(vi)[2]>>, Truthy) IN
    StrJoin(" ", [i \in 1..Len(kept) |-> kept[i].s])

\* combined_text of extract_signals
CombinedText(vi) ==
    LET kept == SelectSeq(TextFields(vi), Truthy) IN
    StrJoin(" ", [i \in 1..Len(kept) |-> kept[i].s])

\* the metadata loop of extract_signals
MetadataValues(vi) ==
    LET metadata == GetOr(vi.metadata, PyDict(<<>>)) IN
    {part \in Range(NormalizePairs(metadata.pairs)) : part # ""}

\* ProductTagsSet adding the stripped tag as it is, not its normalized form
ProductTagsSet_raw(vi) ==
    LET product_tags == GetOr(vi.product_tags, PyList(<<>>))
        tag_list == IF product_tags.kind = "list" THEN product_tags.items ELSE <<>>
        kept == {i \in 1..Len(tag_list) : tag_list[i].kind = "str" /\ StrStrip(tag_list[i].s) # ""}
    IN  UNION {LET stripped == StrStrip(tag_list[i].s) IN
               {stripped} \cup Range(_tokenize(stripped)) : i \in kept}

\* the product tag loop of extract_signals
ProductTagsSet(vi) ==
    LET product_tags == GetOr(vi.product_tags, PyList(<<>>))
        tag_list == IF product_tags.kind = "list" THEN product_tags.items ELSE <<>>
        kept == {i \in 1..Len(tag_list) : tag_list[i].kind = "str" /\ StrStrip(tag_list[i].s) # ""}
    IN  UNION {LET normalized == NormalizeStr(StrStrip(tag_list[i].s)) IN
               {normalized} \cup Range(_tokenize(normalized)) : i \in kept}

\* extract_signals, for an input on which it does not raise
extract_signals(vi) ==
    LET website_text_normalized == NormalizeStr(CombinedText(vi)) IN
    [website_tokens |-> Range(_tokenize(website_text_normalized)),
     metadata_values |-> MetadataValues(vi),
     product_tags |-> ProductTagsSet(vi),
     website_text_normalized |-> website_text_normalized]

(***************************************************************************)
(* taxonomy.py                                                             *)
(***************************************************************************)
\* quarter points per score point: every weight is a multiple of 0.25
ScoreUnit == 4
\* 1.0
WEIGHT_WEBSITE_KEYWORD == 4
\* 1.5
WEIGHT_METADATA_MATCH == 6
\* 2.0
WEIGHT_EXACT_PRODUCT_TAG == 8

\* get_taxonomy(): the dict as the sequence of its (category id, definition)
\* items in insertion order
get_taxonomy ==
  <<
    <<"Payments",
      [keywords |-> <<
          "payment", "payments", "checkout", "billing", "subscription billing", "invoicing",
          "stripe", "stripe-like", "payment gateway", "payment processing",
          "recurring revenue", "merchant", "transaction", "refund", "chargeback",
          "payment method", "card", "ach", "wire", "fintech", "payments api">>,
       metadata_triggers |-> <<"payments", "fintech", "billing", "checkout", "payment">>,
       negative_signals |-> <<"payroll", "salary", "hr payroll">>]>>,
    <<"Analytics",
      [keywords |-> <<
          "analytics", "dashboard", "metrics", "kpi", "reporting", "data visualization", "bi ",
          "business intelligence", "insights", "funnel", "conversion", "tracking", "events",
          "segmentation", "cohort", "attribution">>,
       metadata_triggers |-> <<"analytics", "bi", "reporting", "metrics", "insights">>,
       negative_signals |-> <<>>]>>,
    <<"CRM",
      [keywords |-> <<
          "crm", "customer relationship", "sales pipeline", "lead", "contact", "deal",
          "opportunity", "sales force", "sales automation", "contact management",
          "account management", "sales engagement", "revenue operations">>,
       metadata_triggers |-> <<"crm", "sales", "lead", "pipeline", "contact">>,
       negative_signals |-> <<>>]>>,
    <<"DevTools",
      [keywords |-> <<
          "developer", "devtools", "api", "sdk", "cli", "ide", "code", "ci/cd", "cicd",
          "continuous integration", "deployment", "git", "debug", "logging", "monitoring",
          "observability", "infrastructure as code", "container", "kubernetes", "docker",
          "serverless", "sre">>,
       metadata_triggers |-> <<"devtools", "developer", "api", "sdk", "ci/cd", "dev">>,
       negative_signals |-> <<"marketing automation", "crm">>]>>,
    <<"Marketing Automation",
      [keywords |-> <<
          "marketing automation", "email marketing", "campaign", "automation",
          "lead nurturing", "drip", "landing page", "ab test", "a/b test", "marketing ops",
          "demand gen", "content marketing", "seo">>,
       metadata_triggers |-> <<"marketing", "automation", "email", "campaign", "demand gen">>,
       negative_signals |-> <<"crm", "sales pipeline">>]>>,
    <<"HRTech",
      [keywords |-> <<
          "hr", "human resources", "recruiting", "recruitment", "hiring", "payroll",
          "benefits", "onboarding", "performance", "ats", "applicant tracking", "workforce",
          "employee", "hrms", "hris">>,
       metadata_triggers |-> <<"hr", "hrtech", "recruiting", "payroll", "hiring", "hrms">>,
       negative_signals |-> <<>>]>>,
    <<"Cybersecurity",
      [keywords |-> <<
          "security", "cybersecurity", "sso", "identity", "auth", "mfa", "compliance", "soc",
          "threat", "vulnerability", "pentest", "zero trust", "dlp", "siem", "endpoint", "vpn">>,
       metadata_triggers |-> <<"security", "cybersecurity", "sso", "compliance", "identity">>,
       negative_signals |-> <<>>]>>,
    <<"Infrastructure",
      [keywords |-> <<
          "infrastructure", "cloud", "hosting", "cdn", "database", "storage", "compute",
          "server", "edge", "serverless", "iaas", "paas", "backup", "disaster recovery",
          "scaling", "load balancer">>,
       metadata_triggers |-> <<"infrastructure", "cloud", "hosting", "database", "storage">>,
       negative_signals |-> <<>>]>>,
    <<"Collaboration",
      [keywords |-> <<
          "collaboration", "team", "chat", "messaging", "video call", "meeting", "slack",
          "document", "wiki", "project management", "async", "remote", "workspace", "whiteboard">>,
       metadata_triggers |-> <<"collaboration", "team", "chat", "messaging", "meeting">>,
       negative_signals |-> <<>>]>>
  >>

\* the category ids, in the order the taxonomy enumerates them
TaxonomyIds == [i \in 1..Len(get_taxonomy) |-> get_taxonomy[i][1]]

\* get_taxonomy()[category_id]
Definition(category_id) ==
    get_taxonomy[CHOOSE i \in 1..Len(get_taxonomy) : get_taxonomy[i][1] = category_id][2]

(***************************************************************************)
(* Enumeration order of a Python set: it depends on the hash seed of the   *)
(* process, so every loop over a set is run in an arbitrary order.         *)
(***************************************************************************)
RECURSIVE SetToSeq(_)
SetToSeq(S) ==
    IF S = {} THEN <<>>
    ELSE LET x == CHOOSE y \in S : TRUE IN <<x>> \o SetToSeq(S \ {x})

\* seq started at its (r + 1)-th element, wrapping around
Rotate(seq, r) ==
    IF seq = <<>> THEN <<>>
    ELSE [i \in 1..Len(seq) |-> seq[((i - 1 + r) % Len(seq)) + 1]]

Reverse(seq) == [i \in 1..Len(seq) |-> seq[Len(seq) + 1 - i]]

\* the order in which "for x in S" visits S under the k-th hash seed
IterOrder(S, k) ==
    IF k % 2 = 0 THEN Rotate(SetToSeq(S), k \div 2) ELSE Reverse(Rotate(SetToSeq(S), k \div 2))

(***************************************************************************)
(* classification_engine.py                                                *)
(***************************************************************************)
\* 15.0; defined by the code and used nowhere in it
MAX_SCORE_FOR_FULL_CONFIDENCE == 60

\* 2.0
NEGATIVE_SIGNAL_PENALTY == 8
\* 2.0
WEIGHT_WEBSITE_PHRASE == 8
\* 0.25
GENERIC_PAYMENTS_TOKEN_MULTIPLIER == 1

GENERIC_PAYMENTS_TOKENS ==
    {"payment", "payments", "billing", "checkout", "transaction", "transactions",
     "merchant", "card", "refund", "chargeback"}

_normalize_keyword(key) == StrStrip(StrLower(key))

_category_keywords_normalized(keywords) == {_normalize_keyword(keywords[i]) : i \in 1..Len(keywords)}

\* the increment of one website token without the generic-payments case
TokenIncrement_nodownweight(category_id, keywords_set, token) ==
    IF token \in keywords_set THEN WEIGHT_WEBSITE_KEYWORD ELSE 0

\* increment of one website token (lines 74-79)
TokenIncrement(category_id, keywords_set, token) ==
    IF token \in keywords_set
    THEN IF category_id = "Payments" /\ token \in GENERIC_PAYMENTS_TOKENS
         THEN (WEIGHT_WEBSITE_KEYWORD * GENERIC_PAYMENTS_TOKEN_MULTIPLIER) \div ScoreUnit
         ELSE WEIGHT_WEBSITE_KEYWORD
    ELSE 0

\* TokenLoop with = where the code has +=: the last keyword token visited decides
RECURSIVE TokenLoop_assign(_, _, _, _)
TokenLoop_assign(tokens, category_id, keywords_set, website_token_score) ==
    IF tokens = <<>> THEN website_token_score
    ELSE TokenLoop_assign(Tail(tokens), category_id, keywords_set,
                          IF Head(tokens) \in keywords_set
                          THEN TokenIncrement(category_id, keywords_set, Head(tokens))
                          ELSE website_token_score)

\* for token in signals["website_tokens"]: website_token_score += increment
RECURSIVE TokenLoop(_, _, _, _)
TokenLoop(tokens, category_id, keywords_set, website_token_score) ==
    IF tokens = <<>> THEN website_token_score
    ELSE TokenLoop(Tail(tokens), category_id, keywords_set,
                   website_token_score + TokenIncrement(category_id, keywords_set, Head(tokens)))

\* PhraseLoop with startswith(phrase) where the code has "phrase in text"
RECURSIVE PhraseLoop_startswith(_, _, _)
PhraseLoop_startswith(keywords, website_text_normalized, website_phrase_score) ==
    IF keywords = <<>> THEN website_phrase_score
    ELSE LET phrase == _normalize_keyword(Head(keywords)) IN
         PhraseLoop_startswith(Tail(keywords), website_text_normalized,
                    IF StrContains(" ", phrase)
                       /\ Len(phrase) <= Len(website_text_normalized)
                       /\ SubSeq(website_text_normalized, 1, Len(phrase)) = phrase
                    THEN website_phrase_score + WEIGHT_WEBSITE_PHRASE
                    ELSE website_phrase_score)

\* the phrase loop with the space test on the keyword as written
RECURSIVE PhraseLoop_rawspace(_, _, _)
PhraseLoop_rawspace(keywords, website_text_normalized, website_phrase_score) ==
    IF keywords = <<>> THEN website_phrase_score
    ELSE LET phrase == _normalize_keyword(Head(keywords)) IN
         PhraseLoop_rawspace(Tail(keywords), website_text_normalized,
                    IF StrContains(" ", Head(keywords)) /\ StrContains(phrase, website_text_normalized)
                    THEN website_phrase_score + WEIGHT_WEBSITE_PHRASE
                    ELSE website_phrase_score)

\* for keyword in definition["keywords"]: phrase-level scoring
RECURSIVE PhraseLoop(_, _, _)
PhraseLoop(keywords, website_text_normalized, website_phrase_score) ==
    IF keywords = <<>> THEN website_phrase_score
    ELSE LET phrase == _normalize_keyword(Head(keywords)) IN
         PhraseLoop(Tail(keywords), website_text_normalized,
                    IF StrContains(" ", phrase) /\ StrContains(phrase, website_text_normalized)
                    THEN website_phrase_score + WEIGHT_WEBSITE_PHRASE
                    ELSE website_phrase_score)

\* for kw in metadata_triggers_set: if kw in val: matched = True; break
RECURSIVE TriggerLoop(_, _)
TriggerLoop(triggers, val) ==
    IF triggers = <<>> THEN FALSE
    ELSE IF StrContains(Head(triggers), val) THEN TRUE
    ELSE TriggerLoop(Tail(triggers), val)

\* the metadata loop that adds the weight once per matching trigger
RECURSIVE MetadataLoop_pertrigger(_, _, _, _)
MetadataLoop_pertrigger(vals, metadata_triggers_set, k, metadata_score) ==
    IF vals = <<>> THEN metadata_score
    ELSE MetadataLoop_pertrigger(Tail(vals), metadata_triggers_set, k,
             metadata_score
                 + WEIGHT_METADATA_MATCH
                       * Cardinality({m \in metadata_triggers_set : StrContains(m, Head(vals))}))

\* for val in signals["metadata_values"]: metadata_score += ...
RECURSIVE MetadataLoop(_, _, _, _)
MetadataLoop(vals, metadata_triggers_set, k, metadata_score) ==
    IF vals = <<>> THEN metadata_score
    ELSE LET val == Head(vals)
             matched == \/ val \in metadata_triggers_set
                        \/ TriggerLoop(IterOrder(metadata_triggers_set, k), val)
         IN  MetadataLoop(Tail(vals), metadata_triggers_set, k,
                          IF matched THEN metadata_score + WEIGHT_METADATA_MATCH ELSE metadata_score)

\* the product-tag loop that adds the weight for the keyword set and again
\* for the trigger set
RECURSIVE TagLoop_twice(_, _, _, _)
TagLoop_twice(tags, keywords_set, metadata_triggers_set, product_tag_score) ==
    IF tags = <<>> THEN product_tag_score
    ELSE TagLoop_twice(Tail(tags), keywords_set, metadata_triggers_set,
             product_tag_score
                 + (IF Head(tags) \in keywords_set THEN WEIGHT_EXACT_PRODUCT_TAG ELSE 0)
                 + (IF Head(tags) \in metadata_triggers_set THEN WEIGHT_EXACT_PRODUCT_TAG ELSE 0))

\* for tag in signals["product_tags"]: product_tag_score += ...
RECURSIVE TagLoop(_, _, _, _)
TagLoop(tags, keywords_set, metadata_triggers_set, product_tag_score) ==
    IF tags = <<>> THEN product_tag_score
    ELSE TagLoop(Tail(tags), keywords_set, metadata_triggers_set,
                 IF Head(tags) \in keywords_set \/ Head(tags) \in metadata_triggers_set
                 THEN product_tag_score + WEIGHT_EXACT_PRODUCT_TAG
                 ELSE product_tag_score)

\* the negative-signal loop with containment in place of equality
RECURSIVE NegativeLoop_substring(_, _, _)
NegativeLoop_substring(elems, negative_set, negative_penalty) ==
    IF elems = <<>> THEN negative_penalty
    ELSE NegativeLoop_substring(Tail(elems), negative_set,
                      IF \E n \in negative_set : StrContains(n, Head(elems))
                      THEN negative_penalty + NEGATIVE_SIGNAL_PENALTY
                      ELSE negative_penalty)

\* one of the three negative-signal loops
RECURSIVE NegativeLoop(_, _, _)
NegativeLoop(elems, negative_set, negative_penalty) ==
    IF elems = <<>> THEN negative_penalty
    ELSE NegativeLoop(Tail(elems), negative_set,
                      IF Head(elems) \in negative_set
                      THEN negative_penalty + NEGATIVE_SIGNAL_PENALTY
                      ELSE negative_penalty)

\* signals.get("website_text_normalized", "")
GetWebsiteTextNormalized(sig) ==
    IF "website_text_normalized" \in DOMAIN sig THEN sig.website_text_normalized ELSE ""

\* round(x, 2) of a score given in quarter points, in hundredths
Round2(x) == (x * 100) \div ScoreUnit

\* _score_category without the floor max(0.0, ...) of line 120
_score_category_noclamp(category_id, definition, sig, k) ==
    LET keywords_set == _category_keywords_normalized(definition.keywords)
        metadata_triggers_set == _category_keywords_normalized(definition.metadata_triggers)
        negative_set == _category_keywords_normalized(definition.negative_signals)
        tokens == IterOrder(sig.website_tokens, k)
        vals == IterOrder(sig.metadata_values, k)
        tags == IterOrder(sig.product_tags, k)
        website_token_score == TokenLoop(tokens, category_id, keywords_set, 0)
        website_phrase_score == PhraseLoop(definition.keywords, GetWebsiteTextNormalized(sig), 0)
        website_score == website_token_score + website_phrase_score
        metadata_score == MetadataLoop(vals, metadata_triggers_set, k, 0)
        product_tag_score == TagLoop(tags, keywords_set, metadata_triggers_set, 0)
        negative_penalty ==
            NegativeLoop(tags, negative_set,
                NegativeLoop(vals, negative_set,
                    NegativeLoop(tokens, negative_set, 0)))
        total_raw == website_score + metadata_score + product_tag_score - negative_penalty
    IN  [total_raw |-> total_raw,
         breakdown |-> [website_keyword_score |-> Round2(website_score),
                        metadata_match_score |-> Round2(metadata_score),
                        product_tag_score |-> Round2(product_tag_score),
                        negative_penalty |-> Round2(0 - negative_penalty),
                        total_raw |-> Round2(total_raw)]]

\* _score_category with every set enumerated in its k-th order;
\* returns total_raw (quarter points) and the breakdown (hundredths)
_score_category(category_id, definition, sig, k) ==
    LET keywords_set == _category_keywords_normalized(definition.keywords)
        metadata_triggers_set == _category_keywords_normalized(definition.metadata_triggers)
        negative_set == _category_keywords_normalized(definition.negative_signals)
        tokens == IterOrder(sig.website_tokens, k)
        vals == IterOrder(sig.metadata_values, k)
        tags == IterOrder(sig.product_tags, k)
        website_token_score == TokenLoop(tokens, category_id, keywords_set, 0)
        website_phrase_score == PhraseLoop(definition.keywords, GetWebsiteTextNormalized(sig), 0)
        website_score == website_token_score + website_phrase_score
        metadata_score == MetadataLoop(vals, metadata_triggers_set, k, 0)
        product_tag_score == TagLoop(tags, keywords_set, metadata_triggers_set, 0)
        negative_penalty ==
            NegativeLoop(tags, negative_set,
                NegativeLoop(vals, negative_set,
                    NegativeLoop(tokens, negative_set, 0)))
        total_raw == Max(0, website_score + metadata_score + product_tag_score - negative_penalty)
    IN  [total_raw |-> total_raw,
         breakdown |-> [website_keyword_score |-> Round2(website_score),
                        metadata_match_score |-> Round2(metadata_score),
                        product_tag_score |-> Round2(product_tag_score),
                        negative_penalty |-> Round2(0 - negative_penalty),
                        total_raw |-> Round2(total_raw)]]

\* TrackBest without the elif branch: second_best_score changes only when the
\* best category changes
TrackBest_noelif(category_id, total_raw, best_cat, best, second) ==
    IF total_raw > best
    THEN [best_category |-> category_id, best_score |-> total_raw, second_best_score |-> best]
    ELSE [best_category |-> best_cat, best_score |-> best, second_best_score |-> second]

\* TrackBest with >= where the code has >: a category scoring 0 replaces "Unknown"
TrackBest_ge(category_id, total_raw, best_cat, best, second) ==
    IF total_raw >= best
    THEN [best_category |-> category_id, best_score |-> total_raw, second_best_score |-> best]
    ELSE IF total_raw > second
    THEN [best_category |-> best_cat, best_score |-> best, second_best_score |-> total_raw]
    ELSE [best_category |-> best_cat, best_score |-> best, second_best_score |-> second]

\* the body of the loop with the test against second_best_score first
TrackBest_secondfirst(category_id, total_raw, best_cat, best, second) ==
    IF total_raw > second
    THEN [best_category |-> best_cat, best_score |-> best, second_best_score |-> total_raw]
    ELSE IF total_raw > best
    THEN [best_category |-> category_id, best_score |-> total_raw, second_best_score |-> best]
    ELSE [best_category |-> best_cat, best_score |-> best, second_best_score |-> second]

\* the body of the loop of classify for one category (lines 155-160):
\* the new (best_category, best_score, second_best_score)
TrackBest(category_id, total_raw, best_cat, best, second) ==
    IF total_raw > best
    THEN [best_category |-> category_id, best_score |-> total_raw, second_best_score |-> best]
    ELSE IF total_raw > second
    THEN [best_category |-> best_cat, best_score |-> best, second_best_score |-> total_raw]
    ELSE [best_category |-> best_cat, best_score |-> best, second_best_score |-> second]

\* Confidence with the two scores swapped in the numerator
Confidence_swapped(best, second) ==
    IF best > 0
    THEN [num |-> second, den |-> best + second]
    ELSE [num |-> 0, den |-> 1]

\* the confidence as the gap between best and second relative to the best
Confidence_gap(best, second) ==
    IF best > 0 THEN [num |-> best - second, den |-> best] ELSE [num |-> 0, den |-> 1]

\* lines 163-167: the confidence as the fraction num / den, clamped to [0, 1]
Confidence(best, second) ==
    IF best > 0
    THEN LET num == best
             den == best + second
         IN  IF num > den THEN [num |-> 1, den |-> 1]
             ELSE IF num < 0 THEN [num |-> 0, den |-> 1]
             ELSE [num |-> num, den |-> den]
    ELSE [num |-> 0, den |-> 1]

(***************************************************************************)
(* benchmark_selector.py                                                   *)
(***************************************************************************)
CATEGORY_TO_BENCHMARK ==
    ("Payments" :> "fintech_benchmark_v1") @@
    ("Analytics" :> "analytics_benchmark_v1") @@
    ("CRM" :> "crm_sales_benchmark_v1") @@
    ("DevTools" :> "devtools_growth_benchmark") @@
    ("Marketing Automation" :> "marketing_automation_benchmark_v1") @@
    ("HRTech" :> "hrtech_benchmark_v1") @@
    ("Cybersecurity" :> "cybersecurity_benchmark_v1") @@
    ("Infrastructure" :> "infrastructure_benchmark_v1") @@
    ("Collaboration" :> "collaboration_benchmark_v1")

DEFAULT_BENCHMARK_KEY == "general_saas_benchmark_v1"

\* get_benchmark_key without the fallback to the default key
get_benchmark_key_nodefault(cat) ==
    IF cat \in DOMAIN CATEGORY_TO_BENCHMARK THEN CATEGORY_TO_BENCHMARK[cat] ELSE ""

get_benchmark_key(cat) ==
    IF cat \in DOMAIN CATEGORY_TO_BENCHMARK THEN CATEGORY_TO_BENCHMARK[cat] ELSE DEFAULT_BENCHMARK_KEY

(***************************************************************************)
(* product_ranking.py                                                      *)
(***************************************************************************)
\* the candidate product table without the entry for "CRM"
CATEGORY_TO_PRODUCTS_nocrm ==
    ("Infrastructure" :> <<"AWS", "GCP", "Azure">>) @@
    ("Payments" :> <<"Stripe", "Square", "PayPal">>) @@
    ("DevTools" :> <<"GitHub", "GitLab", "Vercel">>) @@
    ("Analytics" :> <<"Mixpanel", "Amplitude", "Looker">>) @@
    ("Marketing Automation" :> <<"Marketo", "Mailchimp", "HubSpot Marketing Hub">>) @@
    ("HRTech" :> <<"Workday", "BambooHR", "Greenhouse">>) @@
    ("Cybersecurity" :> <<"Okta", "CrowdStrike", "Palo Alto Networks">>) @@
    ("Collaboration" :> <<"Slack", "Notion", "Asana">>)

CATEGORY_TO_PRODUCTS ==
    ("Infrastructure" :> <<"AWS", "GCP", "Azure">>) @@
    ("Payments" :> <<"Stripe", "Square", "PayPal">>) @@
    ("DevTools" :> <<"GitHub", "GitLab", "Vercel">>) @@
    ("CRM" :> <<"Salesforce", "HubSpot", "Pipedrive">>) @@
    ("Analytics" :> <<"Mixpanel", "Amplitude", "Looker">>) @@
    ("Marketing Automation" :> <<"Marketo", "Mailchimp", "HubSpot Marketing Hub">>) @@
    ("HRTech" :> <<"Workday", "BambooHR", "Greenhouse">>) @@
    ("Cybersecurity" :> <<"Okta", "CrowdStrike", "Palo Alto Networks">>) @@
    ("Collaboration" :> <<"Slack", "Notion", "Asana">>)

PRODUCT_ALIASES ==
    ("AWS" :> <<"amazon web services", "aws">>) @@
    ("GCP" :> <<"google cloud", "google cloud platform", "gcp">>) @@
    ("Azure" :> <<"microsoft azure", "azure">>)

\* _normalize of product_ranking.py
_normalize(s) == StrJoin(" ", StrSplit(StrLower(s)))

\* [product_norm] + [a for a in alias_norms if a and a != product_norm]
PhraseCandidates(product) ==
    LET product_norm == _normalize(product)
        aliases == IF product \in DOMAIN PRODUCT_ALIASES THEN PRODUCT_ALIASES[product] ELSE <<>>
        nonempty == SelectSeq(aliases, LAMBDA a : a # "")
        alias_norms == [i \in 1..Len(nonempty) |-> _normalize(nonempty[i])]
    IN  <<product_norm>> \o SelectSeq(alias_norms, LAMBDA a : a # "" /\ a # product_norm)

\* next((p for p in phrase_candidates if p and p in website_text), None); "" for None
RECURSIVE MatchedPhrase(_, _)
MatchedPhrase(candidates, website_text) ==
    IF candidates = <<>> THEN ""
    ELSE IF Head(candidates) # "" /\ StrContains(Head(candidates), website_text)
    THEN Head(candidates)
    ELSE MatchedPhrase(Tail(candidates), website_text)

\* sum(1 for t in toks if t in website_tokens)
TokenHits(candidates, website_tokens) ==
    LET toks == StrSplitSpace(StrJoin(" ", candidates)) IN
    Cardinality({i \in 1..Len(toks) : toks[i] \in website_tokens})

\* phrase match and token overlap both granted
PhraseOrTokenBonus_both(product, website_text, website_tokens) ==
    LET candidates == PhraseCandidates(product)
        matched_phrase == MatchedPhrase(candidates, website_text)
        token_hits == TokenHits(candidates, website_tokens)
    IN  [bonus |-> (IF matched_phrase # "" THEN 12 ELSE 0) + Min(6, 2 * token_hits),
         reason |-> IF matched_phrase # "" THEN "name phrase match in website text"
                    ELSE IF token_hits # 0 THEN "token match (" \o ToString(token_hits) \o ")"
                    ELSE ""]

\* phrase match, else token overlap (lines 82-96): the bonus in quarter points
\* and the reason it appends, "" for none
PhraseOrTokenBonus(product, website_text, website_tokens) ==
    LET candidates == PhraseCandidates(product)
        matched_phrase == MatchedPhrase(candidates, website_text)
        token_hits == TokenHits(candidates, website_tokens)
    IN  IF matched_phrase # ""
        THEN [bonus |-> 12,
              reason |-> IF matched_phrase = _normalize(product)
                         THEN "name phrase match in website text"
                         ELSE "alias phrase match (" \o matched_phrase \o ")"]
        ELSE IF token_hits # 0
        THEN [bonus |-> Min(6, 2 * token_hits),
              reason |-> "token match (" \o ToString(token_hits) \o ")"]
        ELSE [bonus |-> 0, reason |-> ""]

\* vendor-name alignment that grants the similarity bonus on top of the
\* equality bonus
VendorBonus_both(vendor_norm, product_norm) ==
    IF vendor_norm # "" /\ product_norm # ""
    THEN [bonus |-> (IF vendor_norm = product_norm THEN 8 ELSE 0)
                    + (IF StrContains(vendor_norm, product_norm)
                          \/ StrContains(product_norm, vendor_norm) THEN 4 ELSE 0),
          reason |-> IF vendor_norm = product_norm THEN "vendor name equals product"
                     ELSE IF StrContains(vendor_norm, product_norm)
                             \/ StrContains(product_norm, vendor_norm)
                     THEN "vendor name similar to product" ELSE ""]
    ELSE [bonus |-> 0, reason |-> ""]

\* vendor-name alignment (lines 98-105)
VendorBonus(vendor_norm, product_norm) ==
    IF vendor_norm # "" /\ product_norm # ""
    THEN IF vendor_norm = product_norm
         THEN [bonus |-> 8, reason |-> "vendor name equals product"]
         ELSE IF StrContains(vendor_norm, product_norm) \/ StrContains(product_norm, vendor_norm)
         THEN [bonus |-> 4, reason |-> "vendor name similar to product"]
         ELSE [bonus |-> 0, reason |-> ""]
    ELSE [bonus |-> 0, reason |-> ""]

\* signals.get("website_tokens", set())
GetWebsiteTokens(sig) == IF "website_tokens" \in DOMAIN sig THEN sig.website_tokens ELSE {}

\* round(score, 3) of a score given in quarter points, in thousandths
Round3(x) == (x * 1000) \div ScoreUnit

\* the RankedProduct appended for one candidate (lines 72-113)
RankOne(product, vendor_norm, sig) ==
    LET pt == PhraseOrTokenBonus(product, GetWebsiteTextNormalized(sig), GetWebsiteTokens(sig))
        vb == VendorBonus(vendor_norm, _normalize(product))
        reasons == SelectSeq(<<"category alignment", pt.reason, vb.reason>>, LAMBDA r : r # "")
    IN  [name |-> product,
         score |-> Round3(4 + pt.bonus + vb.bonus),
         reason |-> StrJoin("; ", reasons)]

\* SortKeyLess on the score alone: products of equal score keep the table order
SortKeyLess_scoreonly(a, b) == a.score > b.score

\* the sort key (-p["score"], p["name"].lower()) of a is smaller than that of b
SortKeyLess(a, b) ==
    \/ a.score > b.score
    \/ a.score = b.score /\ StrLess(StrLower(a.name), StrLower(b.name))

\* list.sort: stable insertion of x behind every element whose key is not larger
RECURSIVE SortInsert(_, _)
SortInsert(x, sorted) ==
    IF sorted = <<>> THEN <<x>>
    ELSE IF SortKeyLess(x, Head(sorted)) THEN <<x>> \o sorted
    ELSE <<Head(sorted)>> \o SortInsert(x, Tail(sorted))

RECURSIVE SortRanked(_, _)
SortRanked(ranked, sorted) ==
    IF ranked = <<>> THEN sorted
    ELSE SortRanked(Tail(ranked), SortInsert(Head(ranked), sorted))

\* rank_products_for_category without the test top_n <= 0: ranked[:top_n]
\* with a negative top_n drops the last products only
rank_products_for_category_noguard(cat, vname, sig, n) ==
    LET products == IF cat \in DOMAIN CATEGORY_TO_PRODUCTS THEN CATEGORY_TO_PRODUCTS[cat] ELSE <<>>
        vendor_norm == _normalize(vname)
        ranked == [i \in 1..Len(products) |-> RankOne(products[i], vendor_norm, sig)]
        sorted == SortRanked(ranked, <<>>)
    IN  IF products = <<>> THEN <<>>
        ELSE IF n >= 0 THEN SubSeq(sorted, 1, Min(n, Len(sorted)))
        ELSE SubSeq(sorted, 1, Max(0, Len(sorted) + n))

rank_products_for_category(cat, vname, sig, n) ==
    LET products == IF cat \in DOMAIN CATEGORY_TO_PRODUCTS THEN CATEGORY_TO_PRODUCTS[cat] ELSE <<>>
        vendor_norm == _normalize(vname)
        ranked == [i \in 1..Len(products) |-> RankOne(products[i], vendor_norm, sig)]
        sorted == SortRanked(ranked, <<>>)
    IN  IF products = <<>> \/ n <= 0 THEN <<>>
        ELSE SubSeq(sorted, 1, Min(n, Len(sorted)))

(***************************************************************************)
(* saas_classification/__init__.py                                         *)
(***************************************************************************)
\* round(confidence, 4), in ten-thousandths (ties go to the even neighbour)
Round4(c) ==
    LET n == c.num * 10000
        q == n \div c.den
        r == n % c.den
    IN  IF 2 * r < c.den THEN q
        ELSE IF 2 * r > c.den THEN q + 1
        ELSE IF q % 2 = 0 THEN q ELSE q + 1

\* str(payload.get("name") or "")
VendorNameOf(vi) ==
    LET v == GetOr(vi.name, PyStr("")) IN
    CASE v.kind = "str" -> v.s
      [] v.kind = "int" -> ToString(v.n)
      [] v.kind = "bool" -> "True"
      [] OTHER -> "<object>"

\* the ClassifySaaSResult built in lines 62-73
BuildResult(cat, conf, key, products) ==
    [category |-> cat,
     confidence |-> Round4(conf),
     benchmark_key |-> key,
     category_profile |-> [category_name |-> cat,
                           confidence |-> Round4(conf),
                           top_products |-> products]]

\* classify run to its end with every set enumerated in its k-th order: the
\* loop over the taxonomy from item i on, then the confidence
RECURSIVE ClassifyFrom(_, _, _, _)
ClassifyFrom(sig, k, i, acc) ==
    IF i > Len(get_taxonomy)
    THEN [category |-> acc.best_category,
          confidence |-> Confidence(acc.best_score, acc.second_best_score)]
    ELSE ClassifyFrom(sig, k, i + 1,
                      TrackBest(get_taxonomy[i][1],
                                _score_category(get_taxonomy[i][1], get_taxonomy[i][2], sig, k).total_raw,
                                acc.best_category, acc.best_score, acc.second_best_score))

classify(sig, k) ==
    ClassifyFrom(sig, k, 1, [best_category |-> "Unknown", best_score |-> 0, second_best_score |-> 0])

\* classify_saas run to its end, for an input on which extract_signals does
\* not raise
classify_saas(vi, k) ==
    LET sig == extract_signals(vi)
        classified == classify(sig, k)
    IN  BuildResult(classified.category, classified.confidence,
                    get_benchmark_key(classified.category),
                    rank_products_for_category(classified.category, VendorNameOf(vi), sig, 3))

(***************************************************************************)
(* The inputs the callers pass.                                            *)
(***************************************************************************)
\* a vendor_input dict; a key that is missing is PyAbsent
VI(w, d, n, t, m) ==
    [website_text |-> w, description |-> d, name |-> n, product_tags |-> t, metadata |-> m]

StrList(strs) == PyList([i \in 1..Len(strs) |-> PyStr(strs[i])])

\* every field empty or absent
EmptyInputs ==
    {VI(w, d, n, t, m) :
        w \in {PyAbsent, PyNone, PyStr("")},
        d \in {PyAbsent, PyStr("")},
        n \in {PyAbsent, PyNone},
        t \in {PyAbsent, PyNone, PyList(<<>>)},
        m \in {PyAbsent, PyNone, PyDict(<<>>)}}

\* the inputs of the tests, of the examples and of the documentation
ScenarioInputs ==
    {VI(PyAbsent,
        PyStr("Payment processing for the internet. APIs for payments, billing, and more."),
        PyStr("Stripe"), StrList(<<"payments", "api", "fintech">>),
        PyDict(<< <<PyStr("industry"), PyStr("fintech")>> >>)),
     VI(PyAbsent, PyStr("Payment processing for the internet."),
        PyStr("Stripe"), StrList(<<"payments", "api", "fintech">>), PyAbsent),
     VI(PyStr("Build with our API. Debug and monitor your services. Kubernetes and Docker."),
        PyStr("CI/CD and developer APIs. SDKs for deployment and observability."),
        PyStr("Acme Dev API"), StrList(<<"devtools", "api", "sdk", "ci/cd">>), PyAbsent),
     VI(PyAbsent, PyStr("CI/CD and deployment. API and SDK for developers."),
        PyAbsent, StrList(<<"devtools", "api">>), PyAbsent),
     VI(PyAbsent, PyStr("CRM and sales pipeline. Lead management and contact management."),
        PyStr("SalesHub"), StrList(<<"crm", "sales", "lead">>),
        PyDict(<< <<PyStr("segment"), PyStr("sales")>> >>)),
     VI(PyAbsent, PyStr("Sales pipeline and CRM. Lead and contact management."),
        PyAbsent, PyAbsent, PyDict(<< <<PyStr("segment"), PyStr("sales")>> >>)),
     VI(PyStr("Payment PAYMENT payment"), PyAbsent, PyAbsent,
        StrList(<<"Payments", "payments">>), PyAbsent)}

\* website texts with and without keyword occurrences, next to a description
\* that continues them
KeywordTexts ==
    {"", "payment", "card payment", "payment card", "payment gateway", "payment card gateway",
     "gateway", "sales pipeline", "crm sales pipeline", "sales crm pipeline", "stripecard",
     "lead nurturing", "lead seo nurturing", "hr payroll card", "payroll"}

KeywordInputs ==
    {VI(PyStr(w), d, PyAbsent, t, PyAbsent) :
        w \in KeywordTexts,
        d \in {PyAbsent, PyStr("gateway")},
        t \in {PyAbsent, StrList(<<"crm">>)}}

\* metadata of every shape the flattening distinguishes
MetadataInputs ==
    {VI(PyStr("cloud hosting"), PyAbsent, PyStr("AWS"), PyAbsent,
        PyDict(<< <<PyStr("Industry"), PyInt(5)>>,
                  <<PyInt(3), PyStr("CRM")>>,
                  <<PyStr("flags"), PyList(<<PyBool(TRUE), PyNone, PyStr("Dev Tools"),
                                            PyList(<<PyStr("sso")>>)>>)>>,
                  <<PyStr("nested"), PyDict(<< <<PyStr("Segment"), PyStr("FinTech  Payments")>> >>)>> >>)),
     VI(PyAbsent, PyAbsent, PyAbsent, StrList(<<"crm">>),
        PyDict(<< <<PyStr("tool"), PyStr("crm")>>, <<PyStr("x"), PyStr("developer")>> >>)),
     VI(PyStr("crm"), PyAbsent, PyAbsent, PyList(<<PyStr("hr payroll"), PyInt(7), PyStr("  ")>>),
        PyDict(<< <<PyStr("payroll"), PyNone>> >>))}

\* vendors named like a candidate product
ProductInputs ==
    {VI(PyStr(w), PyAbsent, PyStr(n), PyAbsent, PyAbsent) :
        w \in {"cloud hosting on google cloud", "team chat", "laws of storage"},
        n \in {"AWS", "Amazon Web Services", "Slack Technologies", "slack"}}

\* fields of the wrong type
MalformedInputs ==
    {VI(PyInt(5), PyAbsent, PyAbsent, PyAbsent, PyAbsent),
     VI(PyInt(0), PyStr("crm"), PyAbsent, PyAbsent, PyAbsent),
     VI(PyList(<<PyStr("crm")>>), PyAbsent, PyAbsent, PyAbsent, PyAbsent),
     VI(PyStr("crm"), PyBool(TRUE), PyAbsent, PyAbsent, PyAbsent),
     VI(PyStr("crm"), PyBool(FALSE), PyAbsent, PyAbsent, PyAbsent),
     VI(PyStr("crm"), PyAbsent, PyInt(7), PyAbsent, PyAbsent),
     VI(PyStr("crm"), PyAbsent, PyAbsent, PyInt(5), PyAbsent),
     VI(PyStr("crm"), PyAbsent, PyAbsent, PyStr("crm"), PyAbsent),
     VI(PyStr("crm"), PyAbsent, PyAbsent, PyDict(<< <<PyStr("crm"), PyStr("crm")>> >>), PyAbsent),
     VI(PyStr("crm"), PyAbsent, PyAbsent, PyAbsent, PyList(<<PyStr("fintech")>>)),
     VI(PyStr("crm"), PyAbsent, PyAbsent, PyAbsent, PyList(<<>>)),
     VI(PyStr("crm"), PyAbsent, PyAbsent, PyAbsent, PyStr("fintech")),
     VI(PyStr("crm"), PyAbsent, PyAbsent, PyAbsent, PyInt(3)),
     VI(PyStr("crm"), PyAbsent, PyAbsent, PyAbsent, PyInt(0))}

\* the inputs classify_saas is called with
VendorInputs ==
    EmptyInputs \cup ScenarioInputs \cup KeywordInputs \cup MetadataInputs
        \cup ProductInputs \cup MalformedInputs

(***************************************************************************)
(* Variants of a text that differ in letter case, in the whitespace        *)
(* between the words and in how often the words are repeated.              *)
(***************************************************************************)
CaseModes == {"lower", "upper", "title"}

ApplyCase(word, mode) ==
    CASE mode = "lower" -> StrLower(word)
      [] mode = "upper" -> StrUpper(word)
      [] OTHER -> StrUpper(SubSeq(word, 1, 1)) \o StrLower(SubSeq(word, 2, Len(word)))

NextMode(mode) ==
    CASE mode = "title" -> "upper"
      [] mode = "upper" -> "lower"
      [] OTHER -> "title"

\* the words once, in one letter case
Copy(words, mode, sep) == StrJoin(sep, [i \in 1..Len(words) |-> ApplyCase(words[i], mode)])

\* the words rep times, every copy in the next letter case
RECURSIVE Repeated(_, _, _, _)
Repeated(words, mode, rep, sep) ==
    IF rep <= 1 THEN Copy(words, mode, sep)
    ELSE Copy(words, mode, sep) \o sep \o Repeated(words, NextMode(mode), rep - 1, sep)

Canonical(words) == Copy(words, "lower", " ")

Separators == {" ", "  ", "\t", " \n "}

BaseTexts ==
    {<<"payment">>, <<"payment", "gateway">>, <<"stripe-like", "api", "2fa", "42">>, <<"straße">>}

TextVariants(words) ==
    {Repeated(words, m, r, sep) : m \in CaseModes, r \in 1..MaxRepeat, sep \in Separators}

VariantInputs ==
    {VI(PyStr(t), d, PyAbsent, PyAbsent, PyAbsent) :
        t \in UNION {TextVariants(b) : b \in BaseTexts},
        d \in {PyAbsent, PyStr("Gateway API")}}

TagBases == {<<"payments">>, <<"api">>, <<"ci/cd">>, <<"payment", "gateway">>, <<"straße">>}

\* leading and trailing whitespace put around a tag
Pads == {<<"", "">>, <<" ", "\t ">>}

TagVariants(words) ==
    {pad[1] \o Copy(words, m, sep) \o pad[2] : m \in CaseModes, pad \in Pads, sep \in {" ", "  "}}

\* the tag lists made only of variants of one tag
TagLists(words) == UNION {[1..n -> TagVariants(words)] : n \in 1..MaxTagListLen}

TagInputs ==
    {VI(PyAbsent, PyAbsent, PyAbsent, StrList(l), PyAbsent) :
        l \in UNION {TagLists(b) : b \in TagBases}}

\* a metadata value nested d levels deep, lists and dicts in turn, with
\* strings, numbers, booleans and None on every level
RECURSIVE NestedValue(_)
NestedValue(d) ==
    IF d = 0 THEN PyStr("Dev  Tools")
    ELSE PyList(<<PyInt(d), PyStr("  "),
                  PyDict(<< <<PyStr("Level " \o ToString(d)), NestedValue(d - 1)>>,
                            <<PyStr("Flag_" \o ToString(d)), PyBool(TRUE)>> >>),
                  PyNone>>)

NestingInputs ==
    {VI(PyAbsent, PyAbsent, PyAbsent, PyAbsent,
        PyDict(<< <<PyStr("Depth"), NestedValue(d)>>, <<PyStr("Empty"), PyNone>> >>)) :
        d \in 0..MaxNesting}

\* the inputs extract_signals is called with directly
ExtractInputs == VariantInputs \cup TagInputs \cup NestingInputs

\* signals a caller of classify or rank_products_for_category builds itself
DirectSignals ==
    {[website_tokens |-> {}, metadata_values |-> {}, product_tags |-> {},
      website_text_normalized |-> ""],
     [website_tokens |-> {"crm"}, metadata_values |-> {"crm"}, product_tags |-> {"crm"},
      website_text_normalized |-> "crm"],
     [website_tokens |-> {"aws", "cloud", "google"}, metadata_values |-> {},
      product_tags |-> {}],
     [website_tokens |-> {"stripe", "payment", "billing", "hr", "services", "web", "google",
                          "cloud"},
      metadata_values |-> {"developer tools", "hr"},
      product_tags |-> {"hr payroll", "payroll", "security"},
      website_text_normalized |-> "we use amazon web services and paypal"],
     [website_tokens |-> {"lead", "campaign"}, metadata_values |-> {"sales team"},
      product_tags |-> {"analytics", "metrics"},
      website_text_normalized |-> "hubspot marketing hub and slack"],
     [website_tokens |-> {"crm", "api", "sdk", "developer", "cli", "git", "stripe", "payment",
                          "payroll", "campaign"},
      metadata_values |-> {"crm", "payroll processing"},
      product_tags |-> {"hr payroll", "sales pipeline tools"},
      website_text_normalized |->
          "crm api sdk developer cli git stripe payment gateway payroll campaign"]}

\* categories a caller asks a benchmark key or a ranking for
CategoryArgs == Range(TaxonomyIds) \cup {"Unknown", "NonExistent", ""}

VendorNameArgs == {"", "Stripe", "Hub", "  hubspot  MARKETING hub"}

TopNArgs == (0 - 1)..MaxTopN

(***************************************************************************)
(* The state machine: a caller makes one call after the other; a call of   *)
(* classify_saas runs extract_signals, classify (one step per category),   *)
(* get_benchmark_key and rank_products_for_category in turn.               *)
(***************************************************************************)
NoInput == VI(PyAbsent, PyAbsent, PyAbsent, PyAbsent, PyAbsent)

NoSignals ==
    [website_tokens |-> {}, metadata_values |-> {}, product_tags |-> {},
     website_text_normalized |-> ""]

NoConfidence == [num |-> 0, den |-> 1]

NoResult == BuildResult("", NoConfidence, "", <<>>)

(***************************************************************************)
(* Invocations that run concurrently: every invocation has an activation  *)
(* record of its own for its arguments, its locals and its return value.   *)
(***************************************************************************)
Threads == 1..NumThreads

\* no invocation in progress
IdleFrame ==
    [op |-> "none", pc |-> "idle", vendor_input |-> NoInput, signals |-> NoSignals,
     category |-> "", vendor_name |-> "", top_n |-> 0, idx |-> 0,
     best_category |-> "Unknown", best_score |-> 0, second_best_score |-> 0,
     ranked |-> <<>>, ret |-> <<>>]

\* the objects created when the modules are imported, and the dict that
\* get_taxonomy() builds from its literal
ModuleObjects ==
    [taxonomy |-> get_taxonomy,
     WEIGHT_WEBSITE_KEYWORD |-> WEIGHT_WEBSITE_KEYWORD,
     WEIGHT_METADATA_MATCH |-> WEIGHT_METADATA_MATCH,
     WEIGHT_EXACT_PRODUCT_TAG |-> WEIGHT_EXACT_PRODUCT_TAG,
     WEIGHT_WEBSITE_PHRASE |-> WEIGHT_WEBSITE_PHRASE,
     NEGATIVE_SIGNAL_PENALTY |-> NEGATIVE_SIGNAL_PENALTY,
     GENERIC_PAYMENTS_TOKENS |-> GENERIC_PAYMENTS_TOKENS,
     GENERIC_PAYMENTS_TOKEN_MULTIPLIER |-> GENERIC_PAYMENTS_TOKEN_MULTIPLIER,
     CATEGORY_TO_BENCHMARK |-> CATEGORY_TO_BENCHMARK,
     DEFAULT_BENCHMARK_KEY |-> DEFAULT_BENCHMARK_KEY,
     CATEGORY_TO_PRODUCTS |-> CATEGORY_TO_PRODUCTS,
     PRODUCT_ALIASES |-> PRODUCT_ALIASES]

Init ==
    /\ module_state = ModuleObjects
    /\ threads = [t \in Threads |-> IdleFrame]
    /\ op = "none"
    /\ pc = "idle"
    /\ vendor_input = NoInput
    /\ signals = NoSignals
    /\ idx = 0
    /\ best_category = "Unknown"
    /\ best_score = 0
    /\ second_best_score = 0
    /\ all_breakdowns = <<>>
    /\ confidence = NoConfidence
    /\ category = ""
    /\ vendor_name = ""
    /\ top_n = 0
    /\ benchmark_key = ""
    /\ top_products = <<>>
    /\ result = NoResult
    /\ raised = "none"

\* classify_saas(vendor_input) is called: payload = dict(vendor_input)
CallClassifySaas ==
    /\ UNCHANGED <<module_state, threads>>
    /\ pc = "idle"
    /\ \E vi \in VendorInputs : vendor_input' = vi
    /\ op' = "classify_saas"
    /\ pc' = "extract"
    /\ UNCHANGED <<signals, idx, best_category, best_score, second_best_score, all_breakdowns,
                   confidence, category, vendor_name, top_n, benchmark_key, top_products,
                   result, raised>>

\* extract_signals(vendor_input) is called directly
CallExtractSignals ==
    /\ UNCHANGED <<module_state, threads>>
    /\ pc = "idle"
    /\ \E vi \in ExtractInputs : vendor_input' = vi
    /\ op' = "extract_signals"
    /\ pc' = "extract"
    /\ UNCHANGED <<signals, idx, best_category, best_score, second_best_score, all_breakdowns,
                   confidence, category, vendor_name, top_n, benchmark_key, top_products,
                   result, raised>>

\* classify(signals) is called directly
CallClassify ==
    /\ UNCHANGED <<module_state, threads>>
    /\ pc = "idle"
    /\ \E sig \in DirectSignals : signals' = sig
    /\ op' = "classify"
    /\ pc' = "classify"
    /\ UNCHANGED <<vendor_input, idx, best_category, best_score, second_best_score,
                   all_breakdowns, confidence, category, vendor_name, top_n, benchmark_key,
                   top_products, result, raised>>

\* get_benchmark_key(category) is called directly
CallGetBenchmarkKey ==
    /\ UNCHANGED <<module_state, threads>>
    /\ pc = "idle"
    /\ \E c \in CategoryArgs : category' = c
    /\ op' = "get_benchmark_key"
    /\ pc' = "benchmark"
    /\ UNCHANGED <<vendor_input, signals, idx, best_category, best_score, second_best_score,
                   all_breakdowns, confidence, vendor_name, top_n, benchmark_key, top_products,
                   result, raised>>

\* rank_products_for_category(category, vendor_name, signals, top_n) is called directly
CallRank ==
    /\ UNCHANGED <<module_state, threads>>
    /\ pc = "idle"
    /\ \E c \in CategoryArgs, vn \in VendorNameArgs, sig \in DirectSignals, n \in TopNArgs :
          /\ category' = c
          /\ vendor_name' = vn
          /\ signals' = sig
          /\ top_n' = n
    /\ op' = "rank_products_for_category"
    /\ pc' = "rank"
    /\ UNCHANGED <<vendor_input, idx, best_category, best_score, second_best_score,
                   all_breakdowns, confidence, benchmark_key, top_products, result, raised>>

\* extract_signals runs: it raises or returns the signals
Extract ==
    /\ UNCHANGED <<module_state, threads>>
    /\ pc = "extract"
    /\ LET exc == ExtractRaises(vendor_input) IN
       IF exc # "none"
       THEN /\ raised' = exc
            /\ pc' = "raised"
            /\ UNCHANGED signals
       ELSE /\ signals' = extract_signals(vendor_input)
            /\ pc' = IF op = "classify_saas" THEN "classify" ELSE "done"
            /\ UNCHANGED raised
    /\ UNCHANGED <<op, vendor_input, idx, best_category, best_score, second_best_score,
                   all_breakdowns, confidence, category, vendor_name, top_n, benchmark_key,
                   top_products, result>>

\* classify, lines 146-150: the locals before the loop
EnterClassify ==
    /\ UNCHANGED <<module_state, threads>>
    /\ pc = "classify"
    /\ best_category' = "Unknown"
    /\ best_score' = 0
    /\ second_best_score' = 0
    /\ all_breakdowns' = <<>>
    /\ idx' = 1
    /\ pc' = "loop"
    /\ UNCHANGED <<op, vendor_input, signals, confidence, category, vendor_name, top_n,
                   benchmark_key, top_products, result, raised>>

\* classify, lines 152-160: one iteration of the loop over the taxonomy
ScoreCategory ==
    /\ UNCHANGED <<module_state, threads>>
    /\ pc = "loop"
    /\ idx <= Len(get_taxonomy)
    /\ \E k \in 0..(NumIterOrders - 1) :
          LET category_id == get_taxonomy[idx][1]
              scored == _score_category(category_id, get_taxonomy[idx][2], signals, k)
              tracked == TrackBest(category_id, scored.total_raw, best_category, best_score,
                                   second_best_score)
          IN  /\ all_breakdowns' = (category_id :> scored.breakdown) @@ all_breakdowns
              /\ best_category' = tracked.best_category
              /\ best_score' = tracked.best_score
              /\ second_best_score' = tracked.second_best_score
    /\ idx' = idx + 1
    /\ UNCHANGED <<op, pc, vendor_input, signals, confidence, category, vendor_name, top_n,
                   benchmark_key, top_products, result, raised>>

\* ComputeConfidence on the absolute scale of MAX_SCORE_FOR_FULL_CONFIDENCE
\* (a raw score of 15.0 or more is confidence 1.0), not on the score gap
ComputeConfidence_absolute ==
    /\ UNCHANGED <<module_state, threads>>
    /\ pc = "loop"
    /\ idx > Len(get_taxonomy)
    /\ confidence' = IF best_score >= MAX_SCORE_FOR_FULL_CONFIDENCE
                     THEN [num |-> 1, den |-> 1]
                     ELSE [num |-> best_score, den |-> MAX_SCORE_FOR_FULL_CONFIDENCE]
    /\ idx' = 0
    /\ IF op = "classify_saas"
       THEN category' = best_category /\ pc' = "benchmark"
       ELSE UNCHANGED category /\ pc' = "done"
    /\ UNCHANGED <<op, vendor_input, signals, best_category, best_score, second_best_score,
                   all_breakdowns, vendor_name, top_n, benchmark_key, top_products, result,
                   raised>>

\* classify, lines 162-169: the confidence, and the return to the caller
ComputeConfidence ==
    /\ UNCHANGED <<module_state, threads>>
    /\ pc = "loop"
    /\ idx > Len(get_taxonomy)
    /\ confidence' = Confidence(best_score, second_best_score)
    /\ idx' = 0
    /\ IF op = "classify_saas"
       THEN category' = best_category /\ pc' = "benchmark"
       ELSE UNCHANGED category /\ pc' = "done"
    /\ UNCHANGED <<op, vendor_input, signals, best_category, best_score, second_best_score,
                   all_breakdowns, vendor_name, top_n, benchmark_key, top_products, result,
                   raised>>

\* get_benchmark_key runs; classify_saas then prepares the call of the ranker
\* (lines 58-60: vendor_name, top_n=3)
SelectBenchmark ==
    /\ UNCHANGED <<module_state, threads>>
    /\ pc = "benchmark"
    /\ benchmark_key' = get_benchmark_key(category)
    /\ IF op = "classify_saas"
       THEN /\ vendor_name' = VendorNameOf(vendor_input)
            /\ top_n' = 3
            /\ pc' = "rank"
       ELSE /\ UNCHANGED <<vendor_name, top_n>>
            /\ pc' = "done"
    /\ UNCHANGED <<op, vendor_input, signals, idx, best_category, best_score,
                   second_best_score, all_breakdowns, confidence, category, top_products,
                   result, raised>>

\* RankProducts with products.sort(...) on the list of the table where the
\* code sorts the list "ranked" it has built
RankProducts_sortinplace ==
    /\ UNCHANGED threads
    /\ module_state' =
          IF category \in DOMAIN CATEGORY_TO_PRODUCTS /\ top_n > 0
          THEN LET sorted == rank_products_for_category(category, vendor_name, signals,
                                                       Len(CATEGORY_TO_PRODUCTS[category]))
               IN  [module_state EXCEPT !.CATEGORY_TO_PRODUCTS[category] =
                        [i \in 1..Len(sorted) |-> sorted[i].name]]
          ELSE module_state
    /\ pc = "rank"
    /\ top_products' = rank_products_for_category(category, vendor_name, signals, top_n)
    /\ pc' = IF op = "classify_saas" THEN "result" ELSE "done"
    /\ UNCHANGED <<op, vendor_input, signals, idx, best_category, best_score,
                   second_best_score, all_breakdowns, confidence, category, vendor_name, top_n,
                   benchmark_key, result, raised>>

\* rank_products_for_category runs
RankProducts ==
    /\ UNCHANGED <<module_state, threads>>
    /\ pc = "rank"
    /\ top_products' = rank_products_for_category(category, vendor_name, signals, top_n)
    /\ pc' = IF op = "classify_saas" THEN "result" ELSE "done"
    /\ UNCHANGED <<op, vendor_input, signals, idx, best_category, best_score,
                   second_best_score, all_breakdowns, confidence, category, vendor_name, top_n,
                   benchmark_key, result, raised>>

\* classify_saas, lines 62-73: the result record
MakeResult ==
    /\ UNCHANGED <<module_state, threads>>
    /\ pc = "result"
    /\ result' = BuildResult(category, confidence, benchmark_key, top_products)
    /\ pc' = "done"
    /\ UNCHANGED <<op, vendor_input, signals, idx, best_category, best_score,
                   second_best_score, all_breakdowns, confidence, category, vendor_name, top_n,
                   benchmark_key, top_products, raised>>

\* the call has returned or raised; its locals are discarded and the caller
\* is free to make the next call
Return ==
    /\ UNCHANGED <<module_state, threads>>
    /\ pc \in {"done", "raised"}
    /\ op' = "none"
    /\ pc' = "idle"
    /\ vendor_input' = NoInput
    /\ signals' = NoSignals
    /\ idx' = 0
    /\ best_category' = "Unknown"
    /\ best_score' = 0
    /\ second_best_score' = 0
    /\ all_breakdowns' = <<>>
    /\ confidence' = NoConfidence
    /\ category' = ""
    /\ vendor_name' = ""
    /\ top_n' = 0
    /\ benchmark_key' = ""
    /\ top_products' = <<>>
    /\ result' = NoResult
    /\ raised' = "none"

Next ==
    \/ CallClassifySaas
    \/ CallExtractSignals
    \/ CallClassify
    \/ CallGetBenchmarkKey
    \/ CallRank
    \/ Extract
    \/ EnterClassify
    \/ ScoreCategory
    \/ ComputeConfidence
    \/ SelectBenchmark
    \/ RankProducts
    \/ MakeResult
    \/ Return

Spec == Init /\ [][Next]_vars

(***************************************************************************)
(* Concurrent invocations.  Every thread runs extract_signals, classify,   *)
(* get_benchmark_key or rank_products_for_category without a lock; a step  *)
(* is one loop iteration at most, and the steps of the threads interleave  *)
(* in any order.  A step reads the module-level objects and the frame of   *)
(* its own invocation and writes that frame only.                          *)
(***************************************************************************)
ConcVendorInputs == {vi \in ScenarioInputs : vi.name = PyStr("Stripe")}

ConcSignals ==
    {sig \in DirectSignals :
        "website_text_normalized" \in DOMAIN sig /\ sig.website_tokens = {"crm"}}

\* the frames of the calls a thread may make
ConcCalls ==
    {[IdleFrame EXCEPT !.op = "extract_signals", !.pc = "extract", !.vendor_input = vi] :
        vi \in ConcVendorInputs}
    \cup {[IdleFrame EXCEPT !.op = "classify", !.pc = "classify", !.signals = sig] :
        sig \in ConcSignals}
    \cup {[IdleFrame EXCEPT !.op = "get_benchmark_key", !.pc = "benchmark",
                            !.category = "Payments"]}
    \cup {[IdleFrame EXCEPT !.op = "rank_products_for_category", !.pc = "rank",
                            !.category = "Payments", !.vendor_name = "Stripe",
                            !.signals = sig, !.top_n = 2] :
        sig \in ConcSignals}

\* a thread calls one of the four operations
T_Call(t) ==
    /\ threads[t].pc = "idle"
    /\ \E call \in ConcCalls : threads' = [threads EXCEPT ![t] = call]
    /\ UNCHANGED <<seq_vars, module_state>>

\* extract_signals builds its sets from the input and returns them
T_Extract(t) ==
    /\ threads[t].pc = "extract"
    /\ threads' = [threads EXCEPT ![t].ret = extract_signals(threads[t].vendor_input),
                                  ![t].pc = "done"]
    /\ UNCHANGED <<seq_vars, module_state>>

\* classify, lines 146-150: get_taxonomy() and the locals before the loop
T_EnterClassify(t) ==
    /\ threads[t].pc = "classify"
    /\ threads' = [threads EXCEPT ![t].best_category = "Unknown",
                                  ![t].best_score = 0,
                                  ![t].second_best_score = 0,
                                  ![t].idx = 1,
                                  ![t].pc = "loop"]
    /\ UNCHANGED <<seq_vars, module_state>>

\* T_ScoreCategory with best_category, best_score and second_best_score kept
\* at module level, where every thread reads and writes them
T_ScoreCategory_sharedbest(t) ==
    /\ threads[t].pc = "loop"
    /\ threads[t].idx <= Len(module_state.taxonomy)
    /\ \E k \in 0..(NumIterOrders - 1) :
          LET f == threads[t]
              item == module_state.taxonomy[f.idx]
              scored == _score_category(item[1], item[2], f.signals, k)
              tracked == TrackBest(item[1], scored.total_raw, f.best_category, f.best_score,
                                   f.second_best_score)
          IN  threads' = [u \in Threads |->
                             [threads[u] EXCEPT !.best_category = tracked.best_category,
                                                !.best_score = tracked.best_score,
                                                !.second_best_score = tracked.second_best_score,
                                                !.idx = IF u = t THEN f.idx + 1 ELSE @]]
    /\ UNCHANGED <<seq_vars, module_state>>

\* classify, lines 152-160: one iteration of the loop over the taxonomy
T_ScoreCategory(t) ==
    /\ threads[t].pc = "loop"
    /\ threads[t].idx <= Len(module_state.taxonomy)
    /\ \E k \in 0..(NumIterOrders - 1) :
          LET f == threads[t]
              item == module_state.taxonomy[f.idx]
              scored == _score_category(item[1], item[2], f.signals, k)
              tracked == TrackBest(item[1], scored.total_raw, f.best_category, f.best_score,
                                   f.second_best_score)
          IN  threads' = [threads EXCEPT ![t].best_category = tracked.best_category,
                                        ![t].best_score = tracked.best_score,
                                        ![t].second_best_score = tracked.second_best_score,
                                        ![t].idx = f.idx + 1]
    /\ UNCHANGED <<seq_vars, module_state>>

\* classify, lines 162-169: the confidence and the return value
T_ComputeConfidence(t) ==
    /\ threads[t].pc = "loop"
    /\ threads[t].idx > Len(module_state.taxonomy)
    /\ threads' = [threads EXCEPT
                      ![t].ret = [category |-> threads[t].best_category,
                                  confidence |-> Confidence(threads[t].best_score,
                                                            threads[t].second_best_score)],
                      ![t].idx = 0,
                      ![t].pc = "done"]
    /\ UNCHANGED <<seq_vars, module_state>>

\* get_benchmark_key: the lookup in the table of the module
T_Benchmark(t) ==
    /\ threads[t].pc = "benchmark"
    /\ threads' = [threads EXCEPT
                      ![t].ret = IF threads[t].category \in DOMAIN module_state.CATEGORY_TO_BENCHMARK
                                 THEN module_state.CATEGORY_TO_BENCHMARK[threads[t].category]
                                 ELSE module_state.DEFAULT_BENCHMARK_KEY,
                      ![t].pc = "done"]
    /\ UNCHANGED <<seq_vars, module_state>>

\* the list CATEGORY_TO_PRODUCTS.get(category, []): the list of the table
\* itself, not a copy
ProductsOf(cat) ==
    IF cat \in DOMAIN module_state.CATEGORY_TO_PRODUCTS
    THEN module_state.CATEGORY_TO_PRODUCTS[cat]
    ELSE <<>>

\* rank_products_for_category, lines 62-71: the guard and the empty list "ranked"
T_EnterRank(t) ==
    /\ threads[t].pc = "rank"
    /\ threads' = IF ProductsOf(threads[t].category) = <<>> \/ threads[t].top_n <= 0
                  THEN [threads EXCEPT ![t].ret = <<>>, ![t].pc = "done"]
                  ELSE [threads EXCEPT ![t].ranked = <<>>, ![t].idx = 1, ![t].pc = "rankloop"]
    /\ UNCHANGED <<seq_vars, module_state>>

\* rank_products_for_category, lines 72-113: one candidate is scored and appended
T_RankOne(t) ==
    /\ threads[t].pc = "rankloop"
    /\ threads[t].idx <= Len(ProductsOf(threads[t].category))
    /\ threads' = [threads EXCEPT
                      ![t].ranked = Append(@, RankOne(ProductsOf(threads[t].category)[threads[t].idx],
                                                     _normalize(threads[t].vendor_name),
                                                     threads[t].signals)),
                      ![t].idx = @ + 1]
    /\ UNCHANGED <<seq_vars, module_state>>

\* rank_products_for_category, lines 115-117: ranked.sort(...), ranked[:top_n]
T_SortRanked(t) ==
    /\ threads[t].pc = "rankloop"
    /\ threads[t].idx > Len(ProductsOf(threads[t].category))
    /\ LET sorted == SortRanked(threads[t].ranked, <<>>) IN
       threads' = [threads EXCEPT
                      ![t].ret = SubSeq(sorted, 1, Min(threads[t].top_n, Len(sorted))),
                      ![t].ranked = <<>>,
                      ![t].idx = 0,
                      ![t].pc = "done"]
    /\ UNCHANGED <<seq_vars, module_state>>

\* the invocation has returned; its frame is gone
T_Return(t) ==
    /\ threads[t].pc = "done"
    /\ threads' = [threads EXCEPT ![t] = IdleFrame]
    /\ UNCHANGED <<seq_vars, module_state>>

ConcNext ==
    \E t \in Threads :
        \/ T_Call(t)
        \/ T_Extract(t)
        \/ T_EnterClassify(t)
        \/ T_ScoreCategory(t)
        \/ T_ComputeConfidence(t)
        \/ T_Benchmark(t)
        \/ T_EnterRank(t)
        \/ T_RankOne(t)
        \/ T_SortRanked(t)
        \/ T_Return(t)

ConcSpec == Init /\ [][ConcNext]_vars

(***************************************************************************)
(* Where a call stands.                                                    *)
(***************************************************************************)
\* extract_signals has returned the signals of vendor_input
SignalsExtracted ==
    \/ op = "extract_signals" /\ pc = "done"
    \/ op = "classify_saas" /\ pc \in {"classify", "loop", "benchmark", "rank", "result", "done"}

\* classify has returned best_category, confidence and all_breakdowns
ClassifyReturned ==
    \/ op = "classify" /\ pc = "done"
    \/ op = "classify_saas" /\ pc \in {"benchmark", "rank", "result", "done"}

\* get_benchmark_key has returned benchmark_key for category
BenchmarkReturned ==
    \/ op = "get_benchmark_key" /\ pc = "done"
    \/ op = "classify_saas" /\ pc \in {"rank", "result", "done"}

\* rank_products_for_category has returned top_products
RankReturned ==
    \/ op = "rank_products_for_category" /\ pc = "done"
    \/ op = "classify_saas" /\ pc \in {"result", "done"}

\* classify_saas has returned result
ClassifySaasReturned == op = "classify_saas" /\ pc = "done"

(***************************************************************************)
(* Properties.                                                             *)
(***************************************************************************)
EmptyText(v) == v.kind \in {"absent", "none"} \/ v = PyStr("")

\* website_text, description, name, product_tags and metadata all empty or absent
AllEmpty(vi) ==
    /\ EmptyText(vi.website_text)
    /\ EmptyText(vi.description)
    /\ EmptyText(vi.name)
    /\ vi.product_tags.kind \in {"absent", "none"} \/ vi.product_tags = PyList(<<>>)
    /\ vi.metadata.kind \in {"absent", "none"} \/ vi.metadata = PyDict(<<>>)

\* C1: classify_saas on an input whose five fields are all empty or absent
\* does not raise and returns category "Unknown", confidence 0.0, the
\* default benchmark key and no top products.
C1_EmptyInputIsUnknown ==
    (op = "classify_saas" /\ AllEmpty(vendor_input)) =>
        /\ pc # "raised"
        /\ pc = "done" =>
              /\ result.category = "Unknown"
              /\ result.confidence = 0
              /\ result.benchmark_key = "general_saas_benchmark_v1"
              /\ result.category_profile.top_products = <<>>

C1_Witness ==
    /\ ClassifySaasReturned
    /\ AllEmpty(vendor_input)
    /\ vendor_input.website_text = PyStr("")
    /\ vendor_input.metadata = PyNone
    /\ result.category = "Unknown"

\* the largest total_raw of the score breakdown, in hundredths
BestRawScore ==
    CHOOSE m \in {all_breakdowns[c].total_raw : c \in DOMAIN all_breakdowns} :
        \A c \in DOMAIN all_breakdowns : all_breakdowns[c].total_raw <= m

\* C2: the confidence classify returns lies in [0, 1], and it is 0 exactly
\* when the largest per-category raw score is 0.
C2_ConfidenceBound ==
    ClassifyReturned =>
        /\ confidence.den > 0
        /\ 0 <= confidence.num
        /\ confidence.num <= confidence.den
        /\ (confidence.num = 0) <=> (BestRawScore = 0)

C2_Witness ==
    /\ op = "classify"
    /\ pc = "done"
    /\ 0 < confidence.num
    /\ confidence.num < confidence.den
    /\ BestRawScore > 0

\* vendor_input with every field of the wrong type taken out
WellTyped(vi) ==
    LET Text(v) == IF v.kind = "str" THEN v ELSE PyAbsent IN
    [website_text |-> Text(vi.website_text),
     description |-> Text(vi.description),
     name |-> Text(vi.name),
     product_tags |-> IF vi.product_tags.kind = "list" THEN vi.product_tags ELSE PyAbsent,
     metadata |-> IF vi.metadata.kind = "dict" THEN vi.metadata ELSE PyAbsent]

\* C3: extract never fails: on every input, fields of the wrong type
\* included, it returns signals, and a missing or malformed field
\* contributes nothing to them.
C3_ExtractNeverFails ==
    /\ pc # "raised"
    /\ SignalsExtracted => signals = extract_signals(WellTyped(vendor_input))

\* the ordering of the sort key: score descending, then lowercased name ascending
RankedBefore(a, b) ==
    \/ a.score > b.score
    \/ a.score = b.score /\ StrLess(StrLower(a.name), StrLower(b.name))

\* C6: the products rank returns are in descending order of score, products
\* of equal score in ascending order of lowercased name; the lowercased
\* names of the candidates of one category are pairwise different, so no two
\* products are left unordered.
C6_RankOrder ==
    /\ RankReturned =>
          \A i, j \in 1..Len(top_products) :
              i < j => RankedBefore(top_products[i], top_products[j])
    /\ \A c \in DOMAIN CATEGORY_TO_PRODUCTS :
          \A i, j \in 1..Len(CATEGORY_TO_PRODUCTS[c]) :
              i # j => StrLower(CATEGORY_TO_PRODUCTS[c][i]) # StrLower(CATEGORY_TO_PRODUCTS[c][j])

C6_Witness ==
    /\ RankReturned
    /\ Len(top_products) = 3
    /\ top_products[1].score > top_products[2].score
    /\ top_products[2].score = top_products[3].score
    /\ StrLess(StrLower(top_products[2].name), StrLower(top_products[3].name))

\* C7: rank returns no product when the category has no candidate list or
\* top_n <= 0, and otherwise exactly min(top_n, number of candidates)
\* products, each a different candidate of the category.
C7_RankLength ==
    RankReturned =>
        IF category \notin DOMAIN CATEGORY_TO_PRODUCTS \/ top_n <= 0
        THEN top_products = <<>>
        ELSE /\ Len(top_products) = Min(top_n, Len(CATEGORY_TO_PRODUCTS[category]))
             /\ Len(top_products) <= top_n
             /\ \A i \in 1..Len(top_products) :
                   top_products[i].name \in Range(CATEGORY_TO_PRODUCTS[category])
             /\ \A i, j \in 1..Len(top_products) :
                   i # j => top_products[i].name # top_products[j].name

C7_Witness ==
    /\ op = "rank_products_for_category"
    /\ pc = "done"
    /\ category = "CRM"
    /\ top_n = 2
    /\ Len(top_products) = 2

\* C8: get_benchmark_key returns the table entry of a category of the table
\* ("Payments" gives "fintech_benchmark_v1") and "general_saas_benchmark_v1"
\* for every other category, "Unknown" and "NonExistent" included.
C8_BenchmarkKey ==
    /\ pc # "raised" \/ op # "get_benchmark_key"
    /\ BenchmarkReturned =>
          /\ category \in DOMAIN CATEGORY_TO_BENCHMARK =>
                benchmark_key = CATEGORY_TO_BENCHMARK[category]
          /\ category \notin DOMAIN CATEGORY_TO_BENCHMARK =>
                benchmark_key = "general_saas_benchmark_v1"
          /\ category = "Payments" => benchmark_key = "fintech_benchmark_v1"
          /\ category \in {"Unknown", "NonExistent"} =>
                benchmark_key = "general_saas_benchmark_v1"

C8_Witness ==
    /\ op = "get_benchmark_key"
    /\ pc = "done"
    /\ category = "NonExistent"
    /\ benchmark_key = "general_saas_benchmark_v1"

\* the normalized keywords of a category
KeywordsOf(category_id) == _category_keywords_normalized(Definition(category_id).keywords)

\* the places of text where kw stands as a word of its own, between spaces
Occurrences(text, kw) ==
    {i \in 1..(Len(text) - Len(kw) + 1) :
        /\ SubSeq(text, i, i + Len(kw) - 1) = kw
        /\ i = 1 \/ CharAt(text, i - 1) = " "
        /\ i + Len(kw) - 1 = Len(text) \/ CharAt(text, i + Len(kw)) = " "}

\* text before the occurrence of kw at place i was added to it
WithoutOccurrence(text, i, kw) ==
    LET pre == SubSeq(text, 1, i - 1)
        post == SubSeq(text, i + Len(kw), Len(text))
    IN  IF pre = "" THEN SubSeq(post, 2, Len(post))
        ELSE SubSeq(pre, 1, Len(pre) - 1) \o post

\* the raw score (in hundredths) extract followed by scoring gives to a category
RawScoreOf(vi, category_id) ==
    _score_category(category_id, Definition(category_id), extract_signals(vi), 0).breakdown.total_raw

\* the raw score of category_id is not below the one of the same input
\* without the occurrence of kw at place i of website_text
NotDecreasedBy(category_id, kw, i) ==
    LET text == vendor_input.website_text.s
        base == [vendor_input EXCEPT !.website_text = PyStr(WithoutOccurrence(text, i, kw))]
    IN  all_breakdowns[category_id].total_raw >= RawScoreOf(base, category_id)

\* C4 as stated: one more occurrence of a keyword of a category in
\* website_text, wherever it is added, never decreases the raw score of the
\* category.
C4_MonotoneAnywhere ==
    (ClassifySaasReturned /\ vendor_input.website_text.kind = "str") =>
        \A c \in Range(TaxonomyIds) : \A kw \in KeywordsOf(c) :
            \A i \in Occurrences(vendor_input.website_text.s, kw) :
                NotDecreasedBy(c, kw, i)

\* C4 as amended: one more occurrence of a keyword of a category added in
\* front of website_text, or behind it when description and name are empty,
\* never decreases the raw score of the category.
C4_MonotoneAtEnds ==
    (ClassifySaasReturned /\ vendor_input.website_text.kind = "str") =>
        \A c \in Range(TaxonomyIds) : \A kw \in KeywordsOf(c) :
            \A i \in Occurrences(vendor_input.website_text.s, kw) :
                (\/ i = 1
                 \/ /\ i + Len(kw) - 1 = Len(vendor_input.website_text.s)
                    /\ ~Truthy(vendor_input.description)
                    /\ ~Truthy(vendor_input.name))
                => NotDecreasedBy(c, kw, i)

C4_Witness ==
    /\ ClassifySaasReturned
    /\ vendor_input.website_text = PyStr("card payment")
    /\ vendor_input.description = PyStr("gateway")
    /\ 1 \in Occurrences("card payment", "card")
    /\ all_breakdowns["Payments"].total_raw = 250
    /\ RawScoreOf([vendor_input EXCEPT !.website_text = PyStr("payment")], "Payments") = 225

\* C5: the result of classify_saas is a function of the vendor input alone:
\* whatever the order in which the signal sets and the trigger sets were
\* enumerated, it is the result of the call run with any one order; likewise
\* for the category and the confidence of classify.
C5_Deterministic ==
    /\ ClassifySaasReturned =>
          \A k \in 0..(NumIterOrders - 1) : result = classify_saas(vendor_input, k)
    /\ (op = "classify" /\ pc = "done") =>
          \A k \in 0..(NumIterOrders - 1) :
              /\ best_category = classify(signals, k).category
              /\ confidence = classify(signals, k).confidence

C5_Witness ==
    /\ ClassifySaasReturned
    /\ Cardinality(signals.website_tokens) >= 3
    /\ Cardinality(signals.metadata_values) >= 2
    /\ Cardinality(signals.product_tags) >= 2
    /\ IterOrder(signals.website_tokens, 0) # IterOrder(signals.website_tokens, 1)
    /\ result.category = "Payments"
    /\ result.confidence < 10000

\* the pairs of a canonical text and one of its variants
VariantPairs == UNION {{<<Canonical(b), v>> : v \in TextVariants(b)} : b \in BaseTexts}

\* every character of the text is an ASCII character
AsciiText(s) == CharsOf(s) \subseteq (CharsOf(ASCII) \cup WhitespaceChars)

\* C9 as stated: a website text that differs from another in letter case, in
\* repeated words or in the whitespace between the words yields the same
\* website_tokens, all other fields being equal; "Payment PAYMENT payment"
\* yields {"payment"}.
C9_TokenizationInvariant ==
    (SignalsExtracted /\ vendor_input.website_text.kind = "str") =>
        /\ \A p \in VariantPairs :
              vendor_input.website_text.s = p[2] =>
                  signals.website_tokens =
                      extract_signals([vendor_input EXCEPT !.website_text = PyStr(p[1])]).website_tokens
        /\ (vendor_input.website_text.s = "Payment PAYMENT payment"
               /\ ~Truthy(vendor_input.description) /\ ~Truthy(vendor_input.name))
              => signals.website_tokens = {"payment"}

\* C9 as amended: a website text whose letters are ASCII letters and that
\* differs from another in letter case, in repeated words or in the
\* whitespace between the words yields the same website_tokens, all other
\* fields being equal; "Payment PAYMENT payment" yields {"payment"}.
C9_InvariantForAsciiLetters ==
    (SignalsExtracted /\ vendor_input.website_text.kind = "str") =>
        /\ \A p \in VariantPairs :
              (vendor_input.website_text.s = p[2] /\ AsciiText(p[1])) =>
                  signals.website_tokens =
                      extract_signals([vendor_input EXCEPT !.website_text = PyStr(p[1])]).website_tokens
        /\ (vendor_input.website_text.s = "Payment PAYMENT payment"
               /\ ~Truthy(vendor_input.description) /\ ~Truthy(vendor_input.name))
              => signals.website_tokens = {"payment"}

C9_Witness ==
    /\ op = "extract_signals"
    /\ pc = "done"
    /\ vendor_input.website_text = PyStr("PAYMENT \n payment \n Payment")
    /\ <<"payment", "PAYMENT \n payment \n Payment">> \in VariantPairs
    /\ vendor_input.description = PyAbsent
    /\ signals.website_tokens = {"payment"}

\* the variants of every tag
TagVariantsOf == [b \in TagBases |-> TagVariants(b)]

\* product_tags is a list made only of variants of the tag b
VariantsOfOneTag(b) ==
    /\ vendor_input.product_tags.kind = "list"
    /\ vendor_input.product_tags.items # <<>>
    /\ \A i \in 1..Len(vendor_input.product_tags.items) :
          /\ vendor_input.product_tags.items[i].kind = "str"
          /\ vendor_input.product_tags.items[i].s \in TagVariantsOf[b]

\* the entries the tag b alone contributes
EntriesOfTag(b) ==
    extract_signals([vendor_input EXCEPT !.product_tags = StrList(<<Canonical(b)>>)]).product_tags

\* C10 as stated: tags that differ in letter case or whitespace only
\* contribute the same entries, and a list of such variants of one
\* single-word tag yields a product_tags set of size 1.
C10_TagDedupSizeOne ==
    SignalsExtracted =>
        \A b \in TagBases :
            VariantsOfOneTag(b) =>
                /\ signals.product_tags = EntriesOfTag(b)
                /\ Len(b) = 1 => Cardinality(signals.product_tags) = 1

\* C10 as amended: tags that differ in the case of ASCII letters or in
\* whitespace only contribute the same entries, the normalized tag and its
\* tokens (a tag with another letter need not: "straße" and "STRASSE"); a
\* list of such variants of one single-word tag made only of ASCII letters,
\* digits and underscores yields a product_tags set of size 1.
C10_TagDedup ==
    SignalsExtracted =>
        \A b \in TagBases :
            (VariantsOfOneTag(b) /\ AsciiText(Canonical(b))) =>
                /\ signals.product_tags = EntriesOfTag(b)
                /\ signals.product_tags = {Canonical(b)} \cup Range(_tokenize(Canonical(b)))
                /\ (Len(b) = 1 /\ CharsOf(b[1]) \subseteq TokenChars) =>
                      Cardinality(signals.product_tags) = 1

C10_Witness ==
    /\ op = "extract_signals"
    /\ pc = "done"
    /\ vendor_input.product_tags = StrList(<<"Payments", "payments">>)
    /\ VariantsOfOneTag(<<"payments">>)
    /\ signals.product_tags = {"payments"}

(***************************************************************************)
(* Frame conditions.                                                       *)
(***************************************************************************)
\* the names of the products in the order rank_products_for_category returns them
NamesOf(products) == [i \in 1..Len(products) |-> products[i].name]

\* C12: every core operation leaves everything but its own result
\* unchanged: the taxonomy, the weight constants, the benchmark table, the
\* candidate lists and the alias table always equal what the import
\* created, and from the call to the return no step changes the vendor
\* input or the signals value the caller passed.
C12_OnlyTheResultChanges ==
    /\ [](module_state = ModuleObjects)
    /\ [][(pc # "idle" /\ pc' # "idle") =>
             /\ module_state' = module_state
             /\ op \in {"classify_saas", "extract_signals"} => vendor_input' = vendor_input
             /\ op \in {"classify", "rank_products_for_category"} => signals' = signals]_vars

C12_Witness ==
    /\ op = "rank_products_for_category"
    /\ pc = "done"
    /\ signals \in DirectSignals
    /\ category \in DOMAIN CATEGORY_TO_PRODUCTS
    /\ Len(top_products) = Len(CATEGORY_TO_PRODUCTS[category])
    /\ NamesOf(top_products) # CATEGORY_TO_PRODUCTS[category]
    /\ module_state.CATEGORY_TO_PRODUCTS = CATEGORY_TO_PRODUCTS

(***************************************************************************)
(* Concurrency.                                                            *)
(***************************************************************************)
\* what the invocation of frame f returns when it runs alone
ResultAlone(f) ==
    CASE f.op = "extract_signals" -> extract_signals(f.vendor_input)
      [] f.op = "classify" -> classify(f.signals, 0)
      [] f.op = "get_benchmark_key" -> get_benchmark_key(f.category)
      [] f.op = "rank_products_for_category" ->
             rank_products_for_category(f.category, f.vendor_name, f.signals, f.top_n)

\* C11: invocations of extract_signals, classify, get_benchmark_key and
\* rank_products_for_category that run concurrently, their steps interleaved
\* in any order and without a lock, each return what the invocation returns
\* when it runs alone; no step writes a module-level object.
C11_ConcurrentAsAlone ==
    /\ module_state = ModuleObjects
    /\ \A t \in Threads :
          threads[t].pc = "done" => threads[t].ret = ResultAlone(threads[t])

C11_Witness ==
    /\ threads[1].op = "classify"
    /\ threads[1].pc = "done"
    /\ threads[1].ret.category = "CRM"
    /\ threads[2].op = "classify"
    /\ threads[2].pc = "loop"
    /\ threads[2].idx <= Len(module_state.taxonomy)
    /\ threads[2].best_category = "CRM"

(***************************************************************************)
(* Scenarios.                                                              *)
(***************************************************************************)
Scenario1Input ==
    VI(PyAbsent, PyStr("Payment processing for the internet."), PyStr("Stripe"),
       StrList(<<"payments", "api", "fintech">>), PyAbsent)

\* C13: classify_saas on {name: "Stripe", description: "Payment processing
\* for the internet.", product_tags: ["payments", "api", "fintech"]} returns
\* category "Payments", benchmark_key "fintech_benchmark_v1" and a
\* confidence above 0.5.
C13_Scenario1 ==
    (op = "classify_saas" /\ vendor_input = Scenario1Input) =>
        /\ pc # "raised"
        /\ pc = "done" =>
              /\ result.category = "Payments"
              /\ result.benchmark_key = "fintech_benchmark_v1"
              /\ result.confidence > 5000

C13_Witness ==
    /\ ClassifySaasReturned
    /\ vendor_input = Scenario1Input
    /\ result.category = "Payments"
    /\ result.confidence = 7838
    /\ all_breakdowns["Payments"].total_raw = 725
    /\ all_breakdowns["DevTools"].total_raw = 200

Scenario3Input ==
    VI(PyAbsent, PyStr("Sales pipeline and CRM. Lead and contact management."), PyAbsent,
       PyAbsent, PyDict(<< <<PyStr("segment"), PyStr("sales")>> >>))

\* the categories that have s among their negative signals
PenalizedBy(s) ==
    {c \in Range(TaxonomyIds) :
        s \in _category_keywords_normalized(Definition(c).negative_signals)}

\* C14: classify_saas on {description: "Sales pipeline and CRM. Lead and
\* contact management.", metadata: {segment: "sales"}} returns category
\* "CRM", benchmark_key "crm_sales_benchmark_v1" and a confidence above 0,
\* although the token "crm" is a negative signal of two other categories,
\* which it costs the penalty.
C14_Scenario3 ==
    (op = "classify_saas" /\ vendor_input = Scenario3Input) =>
        /\ pc # "raised"
        /\ pc = "done" =>
              /\ result.category = "CRM"
              /\ result.benchmark_key = "crm_sales_benchmark_v1"
              /\ result.confidence > 0
              /\ "crm" \in signals.website_tokens
              /\ Cardinality(PenalizedBy("crm")) = 2
              /\ "CRM" \notin PenalizedBy("crm")
              /\ \A c \in PenalizedBy("crm") : all_breakdowns[c].negative_penalty < 0

C14_Witness ==
    /\ ClassifySaasReturned
    /\ vendor_input = Scenario3Input
    /\ result.category = "CRM"
    /\ result.confidence = 10000
    /\ all_breakdowns["CRM"].total_raw = 850
    /\ PenalizedBy("crm") = {"DevTools", "Marketing Automation"}

(***************************************************************************)
(* Winner and confidence.                                                  *)
(***************************************************************************)
\* the raw score of every category for the signals classify was given, in
\* taxonomy order
RawScores ==
    [i \in 1..Len(get_taxonomy) |->
        _score_category(get_taxonomy[i][1], get_taxonomy[i][2], signals, 0).total_raw]

\* the largest of the scores
MaxOf(scores) == CHOOSE m \in Range(scores) : \A i \in DOMAIN scores : scores[i] <= m

\* the first place in taxonomy order where the largest score stands
FirstMaxIndex(scores) ==
    LET m == MaxOf(scores) IN
    CHOOSE i \in DOMAIN scores : scores[i] = m /\ \A j \in 1..(i - 1) : scores[j] < m

\* the second largest value of the multiset of scores: the largest of the
\* scores with one occurrence of the largest taken out
SecondOf(scores) ==
    LET rest == {scores[i] : i \in DOMAIN scores \ {FirstMaxIndex(scores)}}
    IN  CHOOSE m \in rest : \A x \in rest : x <= m

\* C15: classify returns a category whose raw score is the maximum over the
\* taxonomy; of several categories that share the maximum the one first in
\* taxonomy order is returned; and "Unknown" is returned exactly when every
\* raw score is 0.
C15_WinnerSelection ==
    ClassifyReturned =>
        LET scores == RawScores
            best == MaxOf(scores)
        IN  /\ (best_category = "Unknown") <=> (\A i \in DOMAIN scores : scores[i] = 0)
            /\ best > 0 => best_category = TaxonomyIds[FirstMaxIndex(scores)]
            /\ best_score = best

C15_Witness ==
    /\ op = "classify_saas"
    /\ pc = "benchmark"
    /\ best_score > 0
    /\ second_best_score = best_score
    /\ SecondOf(RawScores) = MaxOf(RawScores)
    /\ best_category = TaxonomyIds[FirstMaxIndex(RawScores)]

TokenScoreOf(c) ==
    Round2(TokenLoop(IterOrder(signals.website_tokens, 0), c, KeywordsOf(c), 0))

\* website_phrase_score of category c for the signals, in hundredths
PhraseScoreOf(c) ==
    Round2(PhraseLoop(Definition(c).keywords, GetWebsiteTextNormalized(signals), 0))

\* C17: the raw total of every category is max(0, token score + phrase
\* score + metadata score + product-tag score - negative penalty); it is
\* never negative, and it is 0 whenever the penalty is at least the sum of
\* the positive components.
C17_RawTotal ==
    \A c \in DOMAIN all_breakdowns :
        LET b == all_breakdowns[c]
            positive == TokenScoreOf(c) + PhraseScoreOf(c) + b.metadata_match_score
                            + b.product_tag_score
            penalty == 0 - b.negative_penalty
        IN  /\ b.website_keyword_score = TokenScoreOf(c) + PhraseScoreOf(c)
            /\ b.total_raw = Max(0, positive - penalty)
            /\ b.total_raw >= 0
            /\ penalty >= positive => b.total_raw = 0
            /\ b.total_raw <= Round2(best_score)

\* the penalty of a category exceeds its positive components, which are not 0
C17_Witness ==
    /\ ClassifyReturned
    /\ \E c \in DOMAIN all_breakdowns :
          /\ all_breakdowns[c].website_keyword_score > 0
          /\ 0 - all_breakdowns[c].negative_penalty >
                 all_breakdowns[c].website_keyword_score + all_breakdowns[c].metadata_match_score
                     + all_breakdowns[c].product_tag_score
          /\ all_breakdowns[c].total_raw = 0
    /\ \E c \in DOMAIN all_breakdowns :
          /\ all_breakdowns[c].negative_penalty < 0
          /\ all_breakdowns[c].total_raw > 0

\* the negative-signal set N of category c
NegativeSetOf(c) == _category_keywords_normalized(Definition(c).negative_signals)

\* C18: the negative penalty of every category is 2.0 times the number of
\* (signal set, element) pairs, over website_tokens, metadata_values and
\* product_tags, whose element equals an entry of the category's
\* negative-signal set: a string in several signal sets counts once per
\* set, and an element that only contains an entry counts nothing.
C18_NegativePenalty ==
    \A c \in DOMAIN all_breakdowns :
        LET N == NegativeSetOf(c)
            pairs == Cardinality(signals.website_tokens \cap N)
                     + Cardinality(signals.metadata_values \cap N)
                     + Cardinality(signals.product_tags \cap N)
        IN  0 - all_breakdowns[c].negative_penalty = 2 * 100 * pairs

C18_Witness ==
    /\ ClassifyReturned
    /\ \E c \in DOMAIN all_breakdowns :
          /\ \E x \in NegativeSetOf(c) :
                x \in signals.website_tokens /\ x \in signals.metadata_values
          /\ all_breakdowns[c].negative_penalty = 0 - 400
    /\ \E c \in DOMAIN all_breakdowns :
          /\ \E n \in NegativeSetOf(c), e \in signals.metadata_values \cup signals.product_tags :
                e \notin NegativeSetOf(c) /\ StrContains(n, e)
          /\ all_breakdowns[c].negative_penalty = 0 - 400

\* the generic-payments tokens of category c as the specification lists them
GenericTokensOf(c) ==
    IF c = "Payments"
    THEN {"payment", "payments", "billing", "checkout", "transaction", "transactions",
          "merchant", "card", "refund", "chargeback"}
    ELSE {}

MatchedPhrases(c) ==
    LET keywords == Definition(c).keywords
        text == GetWebsiteTextNormalized(signals)
    IN  {i \in 1..Len(keywords) :
            /\ StrContains(" ", _normalize_keyword(keywords[i]))
            /\ StrContains(_normalize_keyword(keywords[i]), text)}

\* C20: every keyword of a category that contains a space after
\* normalization and occurs as a substring of website_text_normalized adds
\* 2.0 to the category's website score, a keyword without a space adds no
\* phrase score, and the phrase score comes on top of the token score.
C20_PhraseScore ==
    \A c \in DOMAIN all_breakdowns :
        all_breakdowns[c].website_keyword_score
            = TokenScoreOf(c) + 2 * 100 * Cardinality(MatchedPhrases(c))

C20_Witness ==
    /\ ClassifyReturned
    /\ \E c \in DOMAIN all_breakdowns :
          /\ \E i \in MatchedPhrases(c), t \in signals.website_tokens \cap KeywordsOf(c) :
                StrContains(t, _normalize_keyword(Definition(c).keywords[i]))
          /\ TokenScoreOf(c) > 0
          /\ all_breakdowns[c].website_keyword_score > TokenScoreOf(c)
    /\ \E c \in DOMAIN all_breakdowns :
          /\ \E i \in 1..Len(Definition(c).keywords) :
                /\ StrContains(" ", Definition(c).keywords[i])
                /\ ~StrContains(" ", _normalize_keyword(Definition(c).keywords[i]))
                /\ StrContains(_normalize_keyword(Definition(c).keywords[i]),
                               GetWebsiteTextNormalized(signals))
          /\ MatchedPhrases(c) = {}
          /\ all_breakdowns[c].website_keyword_score = TokenScoreOf(c)

(***************************************************************************)
(* Metadata and product-tag score.                                         *)
(***************************************************************************)
\* the metadata-trigger set M of category c
TriggersOf(c) == _category_keywords_normalized(Definition(c).metadata_triggers)

\* the triggers of category c that value v equals or contains
TriggersIn(c, v) == {m \in TriggersOf(c) : v = m \/ StrContains(m, v)}

\* C21: the metadata score of every category is 1.5 times the number of
\* metadata values that equal a trigger of the category or contain one as
\* a substring; a value that matches several triggers counts once.
C21_MetadataScore ==
    \A c \in DOMAIN all_breakdowns :
        all_breakdowns[c].metadata_match_score
            = 150 * Cardinality({v \in signals.metadata_values : TriggersIn(c, v) # {}})

C21_Witness ==
    /\ ClassifyReturned
    /\ \E c \in DOMAIN all_breakdowns :
          /\ \E v \in signals.metadata_values :
                Cardinality(TriggersIn(c, v)) >= 2 /\ v \notin TriggersOf(c)
          /\ all_breakdowns[c].metadata_match_score = 150
    /\ \E c \in DOMAIN all_breakdowns :
          /\ \E v \in signals.metadata_values : v \in TriggersOf(c)
          /\ all_breakdowns[c].metadata_match_score = 150
    /\ \E c \in DOMAIN all_breakdowns :
          /\ signals.metadata_values # {}
          /\ all_breakdowns[c].metadata_match_score = 0

\* C22: the product-tag score of every category is 2.0 times the number of
\* product tags that are, by equality, in the keyword set or in the trigger
\* set of the category; a tag in both sets counts once.
C22_ProductTagScore ==
    \A c \in DOMAIN all_breakdowns :
        all_breakdowns[c].product_tag_score
            = 200 * Cardinality(signals.product_tags \cap (KeywordsOf(c) \cup TriggersOf(c)))

C22_Witness ==
    /\ ClassifyReturned
    /\ \E c \in DOMAIN all_breakdowns :
          /\ \E tag \in signals.product_tags : tag \in KeywordsOf(c) /\ tag \in TriggersOf(c)
          /\ \E tag \in signals.product_tags :
                /\ tag \notin KeywordsOf(c) \cup TriggersOf(c)
                /\ \E m \in KeywordsOf(c) \cup TriggersOf(c) : StrContains(m, tag)
          /\ all_breakdowns[c].product_tag_score = 200
    /\ \E c \in DOMAIN all_breakdowns :
          /\ signals.product_tags \cap (KeywordsOf(c) \cup TriggersOf(c)) = {}
          /\ all_breakdowns[c].product_tag_score = 0

(***************************************************************************)
(* The bonuses of a ranked product.                                        *)
(***************************************************************************)
\* the vendor-name bonus of a product, in thousandths: 2.0 for equal
\* normalized names, 1.0 for different non-empty names one of which
\* contains the other
VendorPoints(product) ==
    LET vn == _normalize(vendor_name)
        pn == _normalize(product)
    IN  IF vn = "" \/ pn = "" THEN 0
        ELSE IF vn = pn THEN 2000
        ELSE IF StrContains(vn, pn) \/ StrContains(pn, vn) THEN 1000
        ELSE 0

\* the normalized name and the normalized aliases of a product
CandidatePhrases(product) ==
    {_normalize(product)}
        \cup (IF product \in DOMAIN PRODUCT_ALIASES
              THEN {_normalize(PRODUCT_ALIASES[product][i]) : i \in 1..Len(PRODUCT_ALIASES[product])}
              ELSE {})

\* some candidate phrase occurs in the normalized website text
PhraseMatches(product) ==
    \E p \in CandidatePhrases(product) :
        p # "" /\ StrContains(p, GetWebsiteTextNormalized(signals))

\* the number of space-separated tokens of the candidate phrases that are
\* website tokens
HitCount(product) ==
    LET toks == StrSplitSpace(StrJoin(" ", PhraseCandidates(product)))
    IN  Cardinality({i \in 1..Len(toks) : toks[i] \in GetWebsiteTokens(signals)})

\* the phrase bonus or else the token-overlap bonus, in thousandths
PhraseOrTokenPoints(product) ==
    IF PhraseMatches(product) THEN 3000 ELSE Min(1500, 500 * HitCount(product))

\* C23: every ranked product gets the phrase bonus 3.0 when its normalized
\* name or one of its normalized aliases occurs in the normalized website
\* text, and otherwise min(1.5, 0.5 x hitCount); no product gets both, and
\* its reason never names both.
C23_PhraseXorTokens ==
    RankReturned =>
        \A i \in 1..Len(top_products) :
            LET p == top_products[i] IN
            /\ p.score - VendorPoints(p.name) = 1000 + PhraseOrTokenPoints(p.name)
            /\ p.score - VendorPoints(p.name) \in {1000, 1500, 2000, 2500, 4000}
            /\ StrContains("phrase match", p.reason) <=> PhraseMatches(p.name)
            /\ StrContains("token match", p.reason)
                   <=> (~PhraseMatches(p.name) /\ HitCount(p.name) > 0)

C23_Witness ==
    /\ RankReturned
    /\ \E i \in 1..Len(top_products) :
          /\ PhraseMatches(top_products[i].name)
          /\ HitCount(top_products[i].name) > 0
          /\ top_products[i].score = 4000 + VendorPoints(top_products[i].name)
    /\ \E i \in 1..Len(top_products) :
          /\ ~PhraseMatches(top_products[i].name)
          /\ HitCount(top_products[i].name) > 3
          /\ top_products[i].score = 2500 + VendorPoints(top_products[i].name)

\* C24: the vendor-name bonus of every ranked product is 2.0 when the
\* normalized vendor name equals the normalized product name, 1.0 when the
\* two differ, are non-empty and one contains the other, and 0 otherwise,
\* in particular for an empty vendor name; the two bonuses never add up.
C24_VendorBonus ==
    RankReturned =>
        \A i \in 1..Len(top_products) :
            LET p == top_products[i]
                vn == _normalize(vendor_name)
                pn == _normalize(p.name)
                bonus == p.score - 1000 - PhraseOrTokenPoints(p.name)
            IN  /\ bonus \in {0, 1000, 2000}
                /\ bonus = 2000 <=> (vn = pn /\ vn # "")
                /\ bonus = 1000 <=> /\ vn # pn
                                    /\ vn # "" /\ pn # ""
                                    /\ StrContains(vn, pn) \/ StrContains(pn, vn)
                /\ vn = "" => bonus = 0
                /\ StrContains("vendor name equals product", p.reason) <=> bonus = 2000
                /\ StrContains("vendor name similar to product", p.reason) <=> bonus = 1000

C24_Witness ==
    /\ RankReturned
    /\ \E i, k \in 1..Len(top_products) :
          /\ _normalize(top_products[i].name) = _normalize(vendor_name)
          /\ top_products[i].name # vendor_name
          /\ StrContains(_normalize(vendor_name), _normalize(top_products[i].name))
          /\ top_products[i].score = 3000 + PhraseOrTokenPoints(top_products[i].name)
          /\ _normalize(top_products[k].name) # _normalize(vendor_name)
          /\ top_products[k].score = 1000 + PhraseOrTokenPoints(top_products[k].name)

(***************************************************************************)
(* The sets extract_signals returns.                                       *)
(***************************************************************************)
\* extract_signals has returned signals for vendor_input
ExtractReturned ==
    /\ op \in {"extract_signals", "classify_saas"}
    /\ pc \notin {"idle", "extract", "raised"}

\* s has no upper-case letter, no whitespace at its ends and no whitespace
\* inside but single spaces
LowerAndNormalized(s) ==
    /\ StrLower(s) = s
    /\ \A i \in 1..Len(s) :
          /\ CharAt(s, i) \in WhitespaceChars => CharAt(s, i) = " "
          /\ CharAt(s, i) = " " => i # 1 /\ i # Len(s) /\ CharAt(s, i + 1) # " "

\* t stands in text as a maximal run of the characters [a-z0-9_]
MaximalRunIn(t, text) ==
    /\ \A i \in 1..Len(t) : CharAt(t, i) \in TokenChars
    /\ \E i \in 1..(Len(text) - Len(t) + 1) :
          /\ SubSeq(text, i, i + Len(t) - 1) = t
          /\ i = 1 \/ CharAt(text, i - 1) \notin TokenChars
          /\ i + Len(t) - 1 = Len(text) \/ CharAt(text, i + Len(t)) \notin TokenChars

RECURSIVE StringsReached(_)
StringsReached(v) ==
    CASE v.kind = "str" -> {v.s}
      [] v.kind = "list" -> UNION {StringsReached(v.items[i]) : i \in 1..Len(v.items)}
      [] v.kind = "dict" ->
           UNION {StringsReached(v.pairs[i][1]) \cup StringsReached(v.pairs[i][2]) :
                     i \in 1..Len(v.pairs)}
      [] OTHER -> {}

\* the normalized form of a string and its tokens, nothing for a string
\* whose normalized form is empty
Contribution(s) ==
    IF NormalizeStr(s) = "" THEN {}
    ELSE {NormalizeStr(s)}
             \cup {t \in Range(FindTokenRuns(NormalizeStr(s))) : Len(t) >= 2 /\ ~DigitsOnly(t)}

\* the deepest nesting of lists and dicts in a metadata value
RECURSIVE DepthOf(_)
DepthOf(v) ==
    CASE v.kind = "list" ->
           1 + (IF v.items = <<>> THEN 0
                ELSE LET ds == {DepthOf(v.items[i]) : i \in 1..Len(v.items)}
                     IN  CHOOSE m \in ds : \A x \in ds : x <= m)
      [] v.kind = "dict" ->
           1 + (IF v.pairs = <<>> THEN 0
                ELSE LET ds == {DepthOf(v.pairs[i][2]) : i \in 1..Len(v.pairs)}
                     IN  CHOOSE m \in ds : \A x \in ds : x <= m)
      [] OTHER -> 0

\* C26: metadata_values is exactly the union, over every string reached in
\* the metadata mapping as a key or a value at any depth, through lists
\* element by element and through dicts on keys and values, of the
\* normalized string and its tokens; booleans, numbers and None add
\* nothing, and a top-level key adds its part when its value adds none.
C26_MetadataFlattening ==
    ExtractReturned =>
        signals.metadata_values
            = UNION {Contribution(s) :
                        s \in StringsReached(GetOr(vendor_input.metadata, PyDict(<<>>)))}

C26_Witness ==
    /\ ExtractReturned
    /\ vendor_input.metadata.kind = "dict"
    /\ DepthOf(vendor_input.metadata) >= MaxNesting + 1
    /\ vendor_input.metadata.pairs[2] = <<PyStr("Empty"), PyNone>>
    /\ "empty" \in signals.metadata_values
    /\ "dev tools" \in signals.metadata_values
    /\ "tools" \in signals.metadata_values
    /\ "level 1" \in signals.metadata_values
    /\ "flag_1" \in signals.metadata_values

(***************************************************************************)
(* The loop of classify.                                                   *)
(***************************************************************************)
\* C27: the confidence classify returns is 0 or at least 0.5, never
\* strictly between, because the second-best raw score is at most the best
\* raw score; the rounded confidence of a classify_saas result likewise.
C27_ConfidenceZeroOrHalf ==
    /\ ClassifyReturned =>
          /\ second_best_score <= best_score
          /\ confidence.num = 0 \/ 2 * confidence.num >= confidence.den
    /\ ClassifySaasReturned => result.confidence = 0 \/ result.confidence >= 5000

C27_Witness ==
    /\ ClassifySaasReturned
    /\ second_best_score > 0
    /\ 2 * confidence.num > confidence.den
    /\ result.confidence > 5000
    /\ result.confidence < 6000

\* the identifiers of the first n categories of the taxonomy
ProcessedIds(n) == {get_taxonomy[i][1] : i \in 1..n}

\* C28: after each category classify has processed, 0 <= second_best_score
\* <= best_score, best_score is the largest raw score of the categories
\* processed so far (0 if there is none), best_category is "Unknown"
\* exactly when best_score is 0, and the breakdown has one entry for each
\* category processed so far; at the return it has exactly one entry per
\* category of the taxonomy.
C28_LoopInvariant ==
    /\ pc = "loop" =>
          /\ DOMAIN all_breakdowns = ProcessedIds(idx - 1)
          /\ Cardinality(DOMAIN all_breakdowns) = idx - 1
          /\ 0 <= second_best_score
          /\ second_best_score <= best_score
          /\ \A c \in DOMAIN all_breakdowns : all_breakdowns[c].total_raw <= Round2(best_score)
          /\ best_score = 0 <=> best_category = "Unknown"
          /\ best_score > 0 =>
                /\ best_category \in DOMAIN all_breakdowns
                /\ all_breakdowns[best_category].total_raw = Round2(best_score)
    /\ ClassifyReturned =>
          /\ DOMAIN all_breakdowns = ProcessedIds(Len(get_taxonomy))
          /\ Cardinality(DOMAIN all_breakdowns) = Len(get_taxonomy)

C28_Witness ==
    /\ pc = "loop"
    /\ idx > 3
    /\ idx <= Len(get_taxonomy)
    /\ 0 < second_best_score
    /\ second_best_score < best_score
    /\ best_category # get_taxonomy[idx - 1][1]
    /\ \E c \in DOMAIN all_breakdowns : all_breakdowns[c].total_raw = 0

(***************************************************************************)
(* The result of classify_saas.                                            *)
(***************************************************************************)
\* C29: in every result of classify_saas the benchmark key is the default
\* "general_saas_benchmark_v1" exactly when the category is "Unknown",
\* top_products is empty exactly when the category is "Unknown", and every
\* other category comes with exactly 3 products; the taxonomy, the
\* benchmark table and the product table have the same category
\* identifiers.
C29_ResultShape ==
    /\ ClassifySaasReturned =>
          /\ result.category \in Range(TaxonomyIds) \cup {"Unknown"}
          /\ result.benchmark_key = "general_saas_benchmark_v1" <=> result.category = "Unknown"
          /\ result.category_profile.top_products = <<>> <=> result.category = "Unknown"
          /\ result.category # "Unknown" => Len(result.category_profile.top_products) = 3
    /\ DOMAIN CATEGORY_TO_BENCHMARK = Range(TaxonomyIds)
    /\ DOMAIN CATEGORY_TO_PRODUCTS = Range(TaxonomyIds)
    /\ "Unknown" \notin Range(TaxonomyIds)
    /\ \A c \in Range(TaxonomyIds) :
          /\ get_benchmark_key(c) # "general_saas_benchmark_v1"
          /\ Len(CATEGORY_TO_PRODUCTS[c]) = 3

C29_Witness ==
    /\ ClassifySaasReturned
    /\ result.category = "CRM"
    /\ result.benchmark_key = "crm_sales_benchmark_v1"
    /\ Len(result.category_profile.top_products) = 3
    /\ result.confidence > 0

\* C30: in every result of classify_saas a product whose normalized name
\* equals the normalized vendor name has score 6.0 and a product whose
\* normalized name is a proper substring of the normalized vendor name has
\* score 5.0: the vendor name is part of the combined website text, so
\* such a product has the phrase bonus and never the token-overlap bonus.
C30_VendorNamedProduct ==
    ClassifySaasReturned =>
        LET vn == _normalize(vendor_name) IN
        /\ vendor_name = (IF Truthy(vendor_input.name) THEN vendor_input.name.s ELSE "")
        /\ StrContains(vn, signals.website_text_normalized)
        /\ \A i \in 1..Len(result.category_profile.top_products) :
              LET p == result.category_profile.top_products[i]
                  pn == _normalize(p.name)
              IN  /\ pn = vn => p.score = 6000
                  /\ (pn # vn /\ StrContains(pn, vn)) => p.score = 5000
                  /\ StrContains(pn, vn) =>
                        /\ StrContains("phrase match", p.reason)
                        /\ ~StrContains("token match", p.reason)

C30_Witness ==
    /\ ClassifySaasReturned
    /\ \E i \in 1..Len(result.category_profile.top_products) :
          LET p == result.category_profile.top_products[i] IN
          /\ _normalize(p.name) = _normalize(vendor_name)
          /\ HitCount(p.name) > 0
          /\ p.score = 6000
    /\ \E i \in 1..Len(result.category_profile.top_products) :
          result.category_profile.top_products[i].score < 5000

====
